---- MODULE Spec2Model ----
(***************************************************************************)
(* State-machine model of the NYT arena run execution engine:              *)
(*   - ConnectionsEnv  (src/src/environments/ConnectionsEnv.ts)            *)
(*   - CrosswordEnv    (src/src/environments/CrosswordEnv.ts)              *)
(*   - ModelWorker / ConcurrentRunner step loop (concurrent runner)        *)
(*   - OpenRouterClient.chatCompletionWithRetry (agent client)             *)
(* Each component has its own specification (SpecConn, SpecCross, ...);    *)
(* the variables of the other components stay at their initial value.      *)
(***************************************************************************)
EXTENDS Integers, Sequences, FiniteSets, Bags, TLC

VARIABLES conn, connOut, cw, cwOut, scenario, wk, suite, faults, client

\* ------------------------------------------------------------------------
\* Bounds
\* ------------------------------------------------------------------------
\* number of ConnectionsEnv.step calls explored per game
MaxEnvSteps == 5

\* number of CrosswordEnv.step calls explored per game
MaxCwSteps == 4

\* config.maxSteps of the scenarios in which one run is explored in full
MaxSteps == 4

\* number of file-system operations that fail during one suite
MaxFaults == 1

\* ------------------------------------------------------------------------
\* Words.  A raw string is a pair <<base, form>>: base identifies the word
\* up to letter case and surrounding blanks, form is how it is written
\* (0: upper case, trimmed; 1: lower case; 2: mixed case with blanks around).
\* ------------------------------------------------------------------------
W(b, f) == <<b, f>>

\* mutant: the comparison forgets to fold case and trim
NormKeepsForm(w) == w

\* w.toUpperCase().trim()
Norm(w) == <<w[1], 0>>

NormSeq(ws) == [i \in DOMAIN ws |-> Norm(ws[i])]

\* Array.prototype.includes
Includes(seq, x) == \E i \in DOMAIN seq : seq[i] = x

\* Array.prototype.filter(...).length for "is in arr"
CountIn(ws, arr) == Cardinality({i \in DOMAIN ws : Includes(arr, ws[i])})

\* mutant: the array length is taken for the number of distinct words
SetSizeCountsAll(ws) == Len(ws)

\* new Set(arr).size
SetSize(ws) == Cardinality({ws[i] : i \in DOMAIN ws})

\* a word that belongs to no puzzle ("NOTAWORD")
Foreign == 17

\* ------------------------------------------------------------------------
\* Puzzles (ConnectionsPuzzle): 16 words, 4 groups of 4 words, each with a
\* level and a category label.
\* ------------------------------------------------------------------------
Levels == <<"yellow", "green", "blue", "purple">>

GroupWords(g, f) == [i \in 1..4 |-> W(4 * (g - 1) + i, f)]

\* the sample puzzle of the test suite: upper-case words, distinct categories
PuzzleA ==
  [id     |-> "A",
   words  |-> [i \in 1..16 |-> W(i, 0)],
   groups |-> [g \in 1..4 |->
                 [level |-> Levels[g], category |-> g, words |-> GroupWords(g, 0)]]]

\* a puzzle stored in lower case whose first and last group carry the same
\* category label
PuzzleB ==
  [id     |-> "B",
   words  |-> [i \in 1..16 |-> W(i, 1)],
   groups |-> [g \in 1..4 |->
                 [level |-> Levels[g],
                  category |-> IF g = 4 THEN 1 ELSE g,
                  words |-> GroupWords(g, 1)]]]

Puzzles == [A |-> PuzzleA, B |-> PuzzleB]

PuzzleIds == {"A", "B"}

\* mutant: the copy made for shuffling loses the last word
ShufflesLoseAWord ==
  [A |-> [i \in 1..16 |-> IF i = 16 THEN 1 ELSE i],
   B |-> [i \in 1..16 |-> IF i = 16 THEN 6 ELSE ((5 * i) % 16) + 1]]

\* presentation orders produced by the shuffle in reset()
Shuffles ==
  [A |-> [i \in 1..16 |-> i],
   B |-> [i \in 1..16 |-> ((5 * i) % 16) + 1]]

\* ------------------------------------------------------------------------
\* ConnectionsEnv
\* ------------------------------------------------------------------------
\* no step() call was made yet
NoOut == [kind |-> "none"]

\* an environment object on which reset() was not called (state = null)
NoState == [done |-> FALSE, status |-> "uninitialized"]

\* mutant: one mistake too many is allowed
ConnResetFiveMistakes(pid) ==
  [puzzle         |-> pid,
   remainingWords |-> [i \in 1..16 |-> Puzzles[pid].words[Shuffles[pid][i]]],
   foundGroups    |-> <<>>,
   mistakesLeft   |-> 5,
   history        |-> EmptyBag,
   stateVersion   |-> 0,
   done           |-> FALSE,
   status         |-> "in_progress"]

\* reset(puzzle)
ConnReset(pid) ==
  [puzzle         |-> pid,
   remainingWords |-> [i \in 1..16 |-> Puzzles[pid].words[Shuffles[pid][i]]],
   foundGroups    |-> <<>>,
   mistakesLeft   |-> 4,
   history        |-> EmptyBag,
   stateVersion   |-> 0,
   done           |-> FALSE,
   status         |-> "in_progress"]

\* handleGiveUp
HandleGiveUp(st) ==
  [state    |-> [st EXCEPT !.done = TRUE, !.status = "gave_up"],
   feedback |-> [result |-> "gave_up", done |-> TRUE, status |-> "gave_up"]]

\* the one-away scan of handleSubmitGroup
IsOneAway(st, normalizedSubmitted) ==
  LET groups == Puzzles[st.puzzle].groups
  IN  \E g \in DOMAIN groups :
        /\ ~ \E k \in DOMAIN st.foundGroups :
               groups[st.foundGroups[k]].category = groups[g].category
        /\ CountIn(normalizedSubmitted, NormSeq(groups[g].words)) = 3

\* mutant: the accepted group's words stay among the remaining words
RemoveGroupKeepsWords(remainingWords, normalizedGroup) == remainingWords

\* remainingWords.filter(w => !normalizedGroup.includes(w.toUpperCase().trim()))
RemoveGroup(remainingWords, normalizedGroup) ==
  SelectSeq(remainingWords, LAMBDA w : ~ Includes(normalizedGroup, Norm(w)))

\* mutant: victory is declared one group early
AllFoundAtThree(foundGroups) == Len(foundGroups) = 3

\* this.state.foundGroups.length === 4
AllFound(foundGroups) == Len(foundGroups) = 4

\* handleSubmitGroup
HandleSubmitGroup(st, submittedWords) ==
  LET groups              == Puzzles[st.puzzle].groups
      normalizedSubmitted == NormSeq(submittedWords)
      normalizedRemaining == NormSeq(st.remainingWords)
      invalid == [state    |-> st,
                  feedback |-> [result |-> "invalid_action", done |-> FALSE]]
      matching == {g \in DOMAIN groups :
                     CountIn(normalizedSubmitted, NormSeq(groups[g].words)) = 4}
  IN  IF Len(normalizedSubmitted) # 4 THEN invalid
      ELSE IF SetSize(normalizedSubmitted) # 4 THEN invalid
      ELSE IF \E i \in DOMAIN normalizedSubmitted :
                ~ Includes(normalizedRemaining, normalizedSubmitted[i])
        THEN invalid
      ELSE IF matching # {} THEN
        LET g     == CHOOSE m \in matching : \A o \in matching : m <= o
            ng    == NormSeq(groups[g].words)
            found == Append(st.foundGroups, g)
            rem   == RemoveGroup(st.remainingWords, ng)
        IN  IF AllFound(found)
              THEN [state    |-> [st EXCEPT !.foundGroups = found,
                                            !.remainingWords = rem,
                                            !.done = TRUE,
                                            !.status = "success"],
                    feedback |-> [result |-> "correct", foundGroup |-> g,
                                  done |-> TRUE, status |-> "success"]]
              ELSE [state    |-> [st EXCEPT !.foundGroups = found,
                                            !.remainingWords = rem],
                    feedback |-> [result |-> "correct", foundGroup |-> g,
                                  done |-> FALSE]]
      ELSE
        LET isOneAway == IsOneAway(st, normalizedSubmitted)
            left      == st.mistakesLeft - 1
        IN  IF left <= 0
              THEN [state    |-> [st EXCEPT !.mistakesLeft = left,
                                            !.done = TRUE,
                                            !.status = "fail"],
                    feedback |-> [result |-> "incorrect", oneAway |-> isOneAway,
                                  done |-> TRUE, status |-> "fail"]]
              ELSE [state    |-> [st EXCEPT !.mistakesLeft = left],
                    feedback |-> [result |-> "incorrect", oneAway |-> isOneAway,
                                  done |-> FALSE]]

\* history.push({stepIndex: history.length, action, feedback}).  The
\* environment never reads its history back, so it is kept as the bag of its
\* entries, each with the action kind and the feedback result; an entry's
\* stepIndex is the number of entries recorded before it.
PushHistory(history, action, feedback) ==
  history (+) SetToBag({[action |-> action.action, result |-> feedback.result]})

HistoryLength(history) == BagCardinality(history)

\* step(action) on a game that is not done: dispatch, record history, bump
\* the state version
ConnStep(st, action) ==
  LET r == IF action.action = "give_up" THEN HandleGiveUp(st)
           ELSE IF action.action = "submit_group"
             THEN HandleSubmitGroup(st, action.words)
           ELSE [state    |-> st,
                 feedback |-> [result |-> "invalid_action", done |-> FALSE]]
  IN  [state    |-> [r.state EXCEPT !.history =
                                      PushHistory(@, action, r.feedback),
                                    !.stateVersion = @ + 1],
       feedback |-> r.feedback]

\* mutant: the mistakes are counted from five
ConnMetricsFromFive(st) ==
  [mistakesMade |-> 5 - st.mistakesLeft, groupsFound |-> Len(st.foundGroups)]

\* getMetrics
ConnMetrics(st) ==
  [mistakesMade |-> 4 - st.mistakesLeft, groupsFound |-> Len(st.foundGroups)]

\* ------------------------------------------------------------------------
\* Actions submitted to ConnectionsEnv
\* ------------------------------------------------------------------------
\* the 4-subsets submitted: all those of a pool holding two whole groups and
\* one word of each other group, and some that reach into the last two groups
Pool == (1..8) \cup {9, 13}

Asc4 == {t \in Pool \X Pool \X Pool \X Pool :
           t[1] < t[2] /\ t[2] < t[3] /\ t[3] < t[4]}
          \cup { <<9, 10, 11, 12>>, <<13, 14, 15, 16>>, <<9, 10, 11, 13>>,
                 <<5, 13, 14, 15>>, <<9, 10, 13, 14>>, <<5, 9, 10, 11>> }

\* one way of writing the four words t: k selects letter case and order
Written(t, k) ==
  CASE k = 0 -> <<W(t[1], 0), W(t[2], 0), W(t[3], 0), W(t[4], 0)>>
    [] k = 1 -> <<W(t[4], 1), W(t[3], 1), W(t[2], 1), W(t[1], 1)>>
    [] OTHER -> <<W(t[3], 2), W(t[1], 1), W(t[4], 0), W(t[2], 2)>>

\* every 4-subset of a pool, written one way; the whole groups written all
\* three ways
FourWordSubmissions ==
  {Written(t, (t[1] + t[2] + t[3] + t[4]) % 3) : t \in Asc4}
    \cup {Written(<<4 * g - 3, 4 * g - 2, 4 * g - 1, 4 * g>>, k) :
             g \in 1..4, k \in 0..2}

\* wrong count, duplicates (also duplicates up to letter case), unknown word
MalformedSubmissions ==
  { <<>>,
    <<W(1, 0), W(2, 0), W(3, 0)>>,
    <<W(1, 0), W(2, 0), W(3, 0), W(4, 0), W(5, 0)>>,
    <<W(5, 0), W(5, 0), W(6, 0), W(7, 0)>>,
    <<W(5, 0), W(6, 1), W(7, 0), W(5, 2)>>,
    <<W(1, 0), W(2, 0), W(3, 0), W(1, 1), W(2, 1)>>,
    <<W(9, 0), W(10, 0), W(11, 0), W(Foreign, 0)>> }

Submissions == FourWordSubmissions \cup MalformedSubmissions

ConnActions ==
  {[action |-> "submit_group", words |-> ws] : ws \in Submissions}
    \cup {[action |-> "give_up"], [action |-> "unknown"]}

\* ------------------------------------------------------------------------
\* CrosswordEnv.  Characters are one-letter strings; the grid is indexed
\* from 0 as in the code.
\* ------------------------------------------------------------------------
UpperOf == [a |-> "A", b |-> "B"]

\* mutant: the answer is not upper-cased
ToUpperKeepsCase(c) == c

\* c.toUpperCase()
ToUpper(c) == IF c \in DOMAIN UpperOf THEN UpperOf[c] ELSE c

\* [A-Z]
IsUpperLetter(c) == c \in {"A", "B"}

\* answer.toUpperCase().replace(/[^A-Z]/g, "")
NormalizeAnswer(answer) ==
  SelectSeq([i \in DOMAIN answer |-> ToUpper(answer[i])], IsUpperLetter)

\* /^[A-Z]+$/.test(s)
OnlyLetters(s) == Len(s) > 0 /\ \A i \in DOMAIN s : IsUpperLetter(s[i])

\* a 3x2 puzzle (CrosswordPuzzle):   A B #
\*                                   B A B
CwPuzzle ==
  [id       |-> "X",
   width    |-> 3,
   height   |-> 2,
   grid     |-> [i \in 0..5 |-> IF i = 2 THEN "#" ELSE "."],
   solution |-> (0 :> "A" @@ 1 :> "B" @@ 2 :> "#" @@ 3 :> "B" @@ 4 :> "A" @@ 5 :> "B"),
   across   |-> << [number |-> 1, length |-> 2, cells |-> <<0, 1>>],
                   [number |-> 3, length |-> 3, cells |-> <<3, 4, 5>>] >>,
   down     |-> << [number |-> 1, length |-> 2, cells |-> <<0, 3>>],
                   [number |-> 2, length |-> 2, cells |-> <<1, 4>>] >>]

Cells == DOMAIN CwPuzzle.grid

\* the cell indices in increasing order
CellSeq == [i \in 1..Cardinality(Cells) |-> i - 1]

\* clueMap: `${direction}-${number}` -> clue, built in reset()
ClueKeys ==
  {<<"across", CwPuzzle.across[i].number>> : i \in DOMAIN CwPuzzle.across}
    \cup {<<"down", CwPuzzle.down[i].number>> : i \in DOMAIN CwPuzzle.down}

ClueMap ==
  [k \in ClueKeys |->
     IF k[1] = "across"
       THEN CwPuzzle.across[CHOOSE i \in DOMAIN CwPuzzle.across :
                               CwPuzzle.across[i].number = k[2]]
       ELSE CwPuzzle.down[CHOOSE i \in DOMAIN CwPuzzle.down :
                             CwPuzzle.down[i].number = k[2]]]

\* mutant: with allowReveals the first cell starts as a revealed one
CwResetRevealsFirstCell(config) ==
  [config            |-> config,
   fillGrid          |-> [i \in Cells |-> IF CwPuzzle.grid[i] = "#" THEN "#" ELSE "."],
   checkedWrongCells |-> {},
   revealedCells     |-> IF config.allowReveals THEN {0} ELSE {},
   history           |-> EmptyBag,
   stateVersion      |-> 0,
   done              |-> FALSE,
   status            |-> "in_progress",
   checksPerformed   |-> 0]

\* reset(puzzle, config)
CwReset(config) ==
  [config            |-> config,
   fillGrid          |-> [i \in Cells |-> IF CwPuzzle.grid[i] = "#" THEN "#" ELSE "."],
   checkedWrongCells |-> {},
   revealedCells     |-> {},
   history           |-> EmptyBag,
   stateVersion      |-> 0,
   done              |-> FALSE,
   status            |-> "in_progress",
   checksPerformed   |-> 0]

CwInvalid(st) ==
  [state |-> st, feedback |-> [result |-> "invalid_action", done |-> FALSE]]

SeqToSet(seq) == {seq[i] : i \in DOMAIN seq}

\* mutant: the marks stay when their cells are edited
UnmarkNothing(marks, cells) == marks

\* this.state.checkedWrongCells.delete(cellIndex) for each edited cell
Unmark(marks, cells) == marks \ cells

\* handleFillEntry
HandleFillEntry(st, direction, number, answer) ==
  LET key              == <<direction, number>>
      normalizedAnswer == NormalizeAnswer(answer)
  IN  IF key \notin DOMAIN ClueMap THEN CwInvalid(st)
      ELSE LET clue == ClueMap[key]
           IN  IF Len(normalizedAnswer) # clue.length THEN CwInvalid(st)
               ELSE IF ~ OnlyLetters(normalizedAnswer) THEN CwInvalid(st)
               ELSE
                 [state |->
                    [st EXCEPT
                       !.fillGrid =
                          [c \in Cells |->
                             IF \E i \in DOMAIN clue.cells : clue.cells[i] = c
                               THEN normalizedAnswer[
                                      CHOOSE i \in DOMAIN clue.cells :
                                        /\ clue.cells[i] = c
                                        /\ \A j \in DOMAIN clue.cells :
                                             clue.cells[j] = c => j <= i]
                               ELSE @[c]],
                       !.checkedWrongCells = Unmark(@, SeqToSet(clue.cells))],
                  feedback |-> [result |-> "filled", done |-> FALSE]]

\* mutant: revealed cells are blanked like the others
HandleClearEntryBlanksRevealed(st, direction, number) ==
  LET key == <<direction, number>>
  IN  IF key \notin DOMAIN ClueMap THEN CwInvalid(st)
      ELSE LET cleared == SeqToSet(ClueMap[key].cells)
           IN  [state |->
                  [st EXCEPT
                     !.fillGrid = [c \in Cells |-> IF c \in cleared THEN "." ELSE @[c]],
                     !.checkedWrongCells = @ \ cleared],
                feedback |-> [result |-> "cleared", done |-> FALSE]]

\* handleClearEntry
HandleClearEntry(st, direction, number) ==
  LET key == <<direction, number>>
  IN  IF key \notin DOMAIN ClueMap THEN CwInvalid(st)
      ELSE LET cleared == SeqToSet(ClueMap[key].cells) \ st.revealedCells
           IN  [state |->
                  [st EXCEPT
                     !.fillGrid = [c \in Cells |-> IF c \in cleared THEN "." ELSE @[c]],
                     !.checkedWrongCells = Unmark(@, cleared)],
                feedback |-> [result |-> "cleared", done |-> FALSE]]

\* mutant: a partially filled entry passes for a full one
HasEmptyCellNever(st, clue) == FALSE

\* the entry has a cell that is still "."
HasEmptyCell(st, clue) ==
  \E i \in DOMAIN clue.cells : st.fillGrid[clue.cells[i]] = "."

\* mutant: cells already known to be wrong are reported as new again
NewlyWrongReportsAll(st, wrongCells) == wrongCells

\* the wrong cells for which !checkedWrongCells.has(cellIndex)
NewlyWrong(st, wrongCells) ==
  SelectSeq(wrongCells, LAMBDA c : c \notin st.checkedWrongCells)

\* handleCheckEntry
HandleCheckEntry(st, direction, number) ==
  LET key == <<direction, number>>
  IN  IF ~ st.config.allowChecks THEN CwInvalid(st)
      ELSE IF key \notin DOMAIN ClueMap THEN CwInvalid(st)
      ELSE
        LET clue == ClueMap[key]
        IN  IF HasEmptyCell(st, clue) THEN CwInvalid(st)
              ELSE
                LET wrongCells ==
                      SelectSeq(clue.cells,
                                LAMBDA c : st.fillGrid[c] # CwPuzzle.solution[c])
                    newlyWrongCells == NewlyWrong(st, wrongCells)
                IN  [state |->
                       [st EXCEPT
                          !.checkedWrongCells = @ \cup SeqToSet(newlyWrongCells),
                          !.checksPerformed = @ + 1],
                     feedback |-> [result |-> "checked",
                                   wrongCells |-> wrongCells,
                                   newlyWrongCells |-> newlyWrongCells,
                                   done |-> FALSE]]

\* mutant: empty cells are not counted as incorrect
HandleSubmitPuzzleSkipsEmpty(st) ==
  LET incorrectCells ==
        SelectSeq(CellSeq,
                  LAMBDA i : /\ CwPuzzle.solution[i] # "#"
                             /\ st.fillGrid[i] # "."
                             /\ st.fillGrid[i] # CwPuzzle.solution[i])
  IN  IF Len(incorrectCells) = 0
        THEN [state    |-> [st EXCEPT !.done = TRUE, !.status = "success_clean"],
              feedback |-> [result |-> "submitted", success |-> TRUE,
                            successType |-> "success_clean",
                            done |-> TRUE, status |-> "success_clean"]]
        ELSE [state    |-> [st EXCEPT !.done = TRUE, !.status = "fail"],
              feedback |-> [result |-> "submitted", success |-> FALSE,
                            incorrectCells |-> incorrectCells,
                            done |-> TRUE, status |-> "fail"]]

\* handleSubmitPuzzle
HandleSubmitPuzzle(st) ==
  LET incorrectCells ==
        SelectSeq(CellSeq,
                  LAMBDA i : /\ CwPuzzle.solution[i] # "#"
                             /\ st.fillGrid[i] # CwPuzzle.solution[i])
  IN  IF Len(incorrectCells) = 0
        THEN LET successType == IF Cardinality(st.revealedCells) > 0
                                  THEN "success_with_reveals"
                                  ELSE "success_clean"
             IN  [state    |-> [st EXCEPT !.done = TRUE, !.status = successType],
                  feedback |-> [result |-> "submitted", success |-> TRUE,
                                successType |-> successType,
                                done |-> TRUE, status |-> successType]]
        ELSE [state    |-> [st EXCEPT !.done = TRUE, !.status = "fail"],
              feedback |-> [result |-> "submitted", success |-> FALSE,
                            incorrectCells |-> incorrectCells,
                            done |-> TRUE, status |-> "fail"]]

\* mutant: giving up wipes the marks of the checks made
CwHandleGiveUpForgetsMarks(st) ==
  [state    |-> [st EXCEPT !.done = TRUE, !.status = "gave_up",
                           !.checkedWrongCells = {}],
   feedback |-> [result |-> "gave_up", done |-> TRUE, status |-> "gave_up"]]

\* handleGiveUp
CwHandleGiveUp(st) ==
  [state    |-> [st EXCEPT !.done = TRUE, !.status = "gave_up"],
   feedback |-> [result |-> "gave_up", done |-> TRUE, status |-> "gave_up"]]

\* step(action) on a game that is not done
CwStep(st, action) ==
  LET r == CASE action.action = "fill_entry" ->
                  HandleFillEntry(st, action.direction, action.number, action.answer)
             [] action.action = "clear_entry" ->
                  HandleClearEntry(st, action.direction, action.number)
             [] action.action = "check_entry" ->
                  HandleCheckEntry(st, action.direction, action.number)
             [] action.action = "submit_puzzle" -> HandleSubmitPuzzle(st)
             [] action.action = "give_up" -> CwHandleGiveUp(st)
             [] OTHER -> CwInvalid(st)
  IN  [state    |-> [r.state EXCEPT !.history =
                                      PushHistory(@, action, r.feedback),
                                    !.stateVersion = @ + 1],
       feedback |-> r.feedback]

\* getObservation().allowedActions
CwAllowedActions(st) ==
  {"fill_entry", "clear_entry", "submit_puzzle", "give_up"}
    \cup (IF st.config.allowChecks THEN {"check_entry"} ELSE {})

\* ------------------------------------------------------------------------
\* Actions submitted to CrosswordEnv
\* ------------------------------------------------------------------------
\* the clues of the puzzle and one that does not exist
ClueRefs == ClueKeys \cup {<<"across", 2>>}

Answers ==
  { <<"A", "B">>, <<"B", "A">>, <<"a", "b">>, <<"B", "-", "A">>,
    <<"B", "A", "B">>, <<"A", "A", "B">>, <<"b", "a", "b">>,
    <<"A">>, <<"-", "-">>, <<"A", "B", "B", "A">> }

CwActions ==
  {[action |-> "fill_entry", direction |-> k[1], number |-> k[2], answer |-> a] :
     k \in ClueRefs, a \in Answers}
    \cup {[action |-> kind, direction |-> k[1], number |-> k[2]] :
            kind \in {"clear_entry", "check_entry"}, k \in ClueRefs}
    \cup {[action |-> "submit_puzzle"], [action |-> "give_up"],
          [action |-> "unknown"]}

CwConfigs ==
  {[allowChecks |-> TRUE, allowReveals |-> FALSE],
   [allowChecks |-> FALSE, allowReveals |-> FALSE],
   [allowChecks |-> TRUE, allowReveals |-> TRUE]}

\* ------------------------------------------------------------------------
\* ModelWorker / ConcurrentRunner.  A scenario is a SuiteConfig together
\* with the behaviour of the collaborators: what the agent may answer,
\* whether file operations may fail, on which events an observer throws.
\* ------------------------------------------------------------------------
EventTypes ==
  {"run_start", "step_start", "step_complete", "run_complete", "error",
   "worker_idle"}

NoUsage == [present |-> FALSE]

SomeUsage ==
  [present |-> TRUE, promptTokens |-> 2, completionTokens |-> 1, totalTokens |-> 3]

NotJson == [json |-> FALSE]

Json(value) == [json |-> TRUE, value |-> value]

Content(content, latencyMs, usage) ==
  [kind |-> "content", content |-> content, latencyMs |-> latencyMs, usage |-> usage]

\* what chatCompletionWithRetry may do in a connections run: return some
\* content, or throw (fatal error, or retries exhausted)
ConnResponses ==
  {Content(Json([task |-> "connections", action |-> "submit_group",
                 words |-> GroupWords(g, 0)]), 1, SomeUsage) : g \in 1..4}
    \cup
  {Content(Json([task |-> "connections", action |-> "submit_group",
                 words |-> <<W(1, 0), W(2, 0), W(3, 0), W(5, 0)>>]), 1, SomeUsage),
   Content(Json([task |-> "connections", action |-> "submit_group",
                 words |-> <<W(5, 0), W(5, 0), W(6, 0), W(7, 0)>>]), 1, SomeUsage),
   Content(Json([task |-> "connections", action |-> "submit_group",
                 words |-> <<W(1, 0), W(2, 0), W(3, 0)>>]), 1, SomeUsage),
   Content(Json([task |-> "connections", action |-> "give_up"]), 1, SomeUsage),
   Content(NotJson, 2, NoUsage),
   [kind |-> "api_error", latencyMs |-> 2]}

CwFill(direction, number, answer) ==
  [task |-> "crossword", action |-> "fill_entry", direction |-> direction,
   number |-> number, answer |-> answer]

CwResponses ==
  {Content(Json(CwFill("across", 1, <<"A", "B">>)), 1, SomeUsage),
   Content(Json(CwFill("across", 3, <<"b", "a", "b">>)), 1, SomeUsage),
   Content(Json(CwFill("across", 3, <<"A", "A", "B">>)), 1, SomeUsage),
   Content(Json([task |-> "crossword", action |-> "check_entry",
                 direction |-> "across", number |-> 3]), 1, SomeUsage),
   Content(Json([task |-> "crossword", action |-> "clear_entry",
                 direction |-> "across", number |-> 2]), 1, SomeUsage),
   Content(Json([task |-> "crossword", action |-> "submit_puzzle"]), 1, SomeUsage),
   Content(Json([task |-> "crossword", action |-> "give_up"]), 1, SomeUsage),
   Content(Json([task |-> "connections", action |-> "give_up"]), 1, NoUsage),
   Content(NotJson, 2, NoUsage),
   [kind |-> "api_error", latencyMs |-> 2]}

\* the answers explored when several workers run side by side
FewResponses ==
  {Content(Json([task |-> "connections", action |-> "give_up"]), 1, SomeUsage),
   Content(NotJson, 2, NoUsage)}

ResponseSets == [conn |-> ConnResponses, cw |-> CwResponses, few |-> FewResponses]

\* SuiteConfig defaults of src/schemas/config.ts, scaled to the model
BaseScenario ==
  [models                |-> <<"m1">>,
   task                  |-> "connections",
   puzzles               |-> 1,
   repeats               |-> 1,
   maxSteps              |-> MaxSteps,
   runTimeoutMs          |-> 100,
   maxInvalidActions     |-> 2,
   maxConcurrentRequests |-> 10,
   allowChecks           |-> TRUE,
   allowReveals          |-> FALSE,
   responses             |-> "conn",
   ioFaults              |-> FALSE,
   observerThrowsOn      |-> {}]

\* one model, one run
RunScenarios ==
  {BaseScenario,
   [BaseScenario EXCEPT !.runTimeoutMs = 2],
   [BaseScenario EXCEPT !.task = "crossword", !.responses = "cw"],
   [BaseScenario EXCEPT !.task = "crossword", !.responses = "cw",
                        !.allowChecks = FALSE]}

\* two models, two runs each, two steps per run
SuiteBase ==
  [BaseScenario EXCEPT !.models = <<"m1", "m2">>, !.repeats = 2,
                       !.maxSteps = 2, !.maxConcurrentRequests = 1,
                       !.responses = "few", !.ioFaults = TRUE]

SuiteScenarios ==
  {[SuiteBase EXCEPT !.observerThrowsOn = t] :
     t \in {{}, {"step_complete"}, {"run_complete"}, {"error"}}}

Scenarios == RunScenarios \cup SuiteScenarios

Models == {"m1", "m2"}

ModelsOf(sc) == {sc.models[i] : i \in DOMAIN sc.models}

\* the (puzzle, repeat) pairs of processPuzzles, in loop order
RunList(sc) ==
  [i \in 1..(sc.puzzles * sc.repeats) |->
     [puzzle |-> ((i - 1) \div sc.repeats) + 1, repeat |-> (i - 1) % sc.repeats]]

NumRuns(sc) == Len(RunList(sc))

\* Math.ceil(a / b)
CeilDiv(a, b) == (a + b - 1) \div b

\* modelConcurrency (no perModelConcurrency entry configured)
ModelConcurrency(sc) == CeilDiv(sc.maxConcurrentRequests, Len(sc.models))

NoFile == [exists |-> FALSE]

File(content) == [exists |-> TRUE, content |-> content]

NoSummary == [status |-> "none"]

NoFeedback == [result |-> "null"]

\* the locals of runSingleEvaluation before the run starts
NewRun ==
  [pc                    |-> "unstarted",
   status                |-> "error",
   invalidActions        |-> 0,
   stepIndex             |-> 0,
   steps                 |-> <<>>,
   env                   |-> NoState,
   observation           |-> NoState,
   elapsed               |-> 0,
   totalLatencyMs        |-> 0,
   totalPromptTokens     |-> 0,
   totalCompletionTokens |-> 0,
   agentCalls            |-> 0,
   summary               |-> NoSummary]

NoFiles == [dir |-> FALSE, steps |-> NoFile, tmp |-> NoFile, summary |-> NoFile]

\* a ModelWorker whose processPuzzles was just called
NewWorker(sc) ==
  [pc      |-> "looping",
   next    |-> 1,
   runs    |-> [k \in 1..NumRuns(sc) |-> NewRun],
   files   |-> [k \in 1..NumRuns(sc) |-> NoFiles],
   events  |-> <<>>,
   results |-> <<>>,
   active  |-> 0,
   queue   |-> <<>>]

\* this.emitEvent(event): the event reaches the stream
Emit(w, type, k, step) ==
  [w EXCEPT !.events = Append(@, [type |-> type, run |-> k, step |-> step])]

\* ... and an observer callback may throw from inside emit()
Throws(type) == type \in scenario.observerThrowsOn

\* mutant: a submit_group is accepted whatever the number of its words
ParseActionIgnoresWordCount(task, content) ==
  IF ~ content.json THEN [ok |-> FALSE]
  ELSE LET v == content.value
       IN  IF v.task # task THEN [ok |-> FALSE]
           ELSE IF task = "connections"
             THEN IF v.action \in {"give_up", "submit_group"}
                    THEN [ok |-> TRUE, action |-> v]
                    ELSE [ok |-> FALSE]
           ELSE IF v.action \in {"fill_entry", "clear_entry", "check_entry",
                                 "submit_puzzle", "give_up"}
             THEN [ok |-> TRUE, action |-> v]
           ELSE [ok |-> FALSE]

\* ConnectionsActionSchema.parse / CrosswordActionSchema.parse of
\* JSON.parse(response.content)
ParseAction(task, content) ==
  IF ~ content.json THEN [ok |-> FALSE]
  ELSE LET v == content.value
       IN  IF v.task # task THEN [ok |-> FALSE]
           ELSE IF task = "connections"
             THEN IF v.action = "give_up" THEN [ok |-> TRUE, action |-> v]
                  ELSE IF v.action = "submit_group" /\ Len(v.words) = 4
                    THEN [ok |-> TRUE, action |-> v]
                  ELSE [ok |-> FALSE]
           ELSE IF v.action \in {"fill_entry", "clear_entry", "check_entry",
                                 "submit_puzzle", "give_up"}
             THEN [ok |-> TRUE, action |-> v]
           ELSE [ok |-> FALSE]

\* new ConnectionsEnv().reset(puzzle) / new CrosswordEnv().reset(puzzle, rules)
EnvReset(sc) ==
  IF sc.task = "connections"
    THEN ConnReset("A")
    ELSE CwReset([allowChecks |-> sc.allowChecks, allowReveals |-> sc.allowReveals])

EnvStep(task, env, action) ==
  IF task = "connections" THEN ConnStep(env, action) ELSE CwStep(env, action)

\* env.getMetrics() (percentCorrectFilled left out)
EnvMetrics(task, env) ==
  IF task = "connections"
    THEN ConnMetrics(env)
    ELSE [checkedCount |-> env.checksPerformed,
          revealedCount |-> Cardinality(env.revealedCells)]

\* mutant: the crossword success statuses are not taken over
MapEnvStatusForgetsClean(envStatus, status) ==
  IF envStatus = "success" THEN "success"
  ELSE IF envStatus \in {"fail", "gave_up"} THEN "fail"
  ELSE status

\* the status taken from a finished environment
MapEnvStatus(envStatus, status) ==
  IF envStatus = "success" THEN "success"
  ELSE IF envStatus \in {"success_clean", "success_with_reveals"} THEN envStatus
  ELSE IF envStatus \in {"fail", "gave_up"} THEN "fail"
  ELSE status

\* the invalid-action cap, checked after an invalid_action feedback
CapReached(invalidActions) == invalidActions >= scenario.maxInvalidActions

\* after the try/catch around the loop: endedAt, metrics, summary; then
\* writeSteps is awaited
Finalize(w, k) ==
  LET r == w.runs[k]
      summary ==
        [status         |-> r.status,
         stepsTaken     |-> Len(r.steps),
         invalidActions |-> r.invalidActions,
         usage          |-> [promptTokens     |-> r.totalPromptTokens,
                             completionTokens |-> r.totalCompletionTokens,
                             totalTokens      |-> r.totalPromptTokens
                                                    + r.totalCompletionTokens],
         latencyMsTotal |-> r.totalLatencyMs,
         metrics        |-> EnvMetrics(scenario.task, r.env)]
  IN  [w EXCEPT !.runs[k].summary = summary, !.runs[k].pc = "writeSteps"]

\* mutant: the exception leaves runSingleEvaluation
FatalRethrows(w, k) == [w EXCEPT !.runs[k].pc = "threw"]

\* catch (fatalError) { status = "error" }
Fatal(w, k) == Finalize([w EXCEPT !.runs[k].status = "error"], k)

\* mutant: a run whose status is still the initial one counts as timed out
AfterLoopAlwaysTimeout(w, k) ==
  LET r == w.runs[k]
  IN  IF r.status = "error"
        THEN Finalize([w EXCEPT !.runs[k].status = "timeout"], k)
        ELSE Finalize(w, k)

\* the loop was left: the time-out check after the loop
AfterLoop(w, k) ==
  LET r == w.runs[k]
  IN  IF r.status = "error" /\ r.elapsed > scenario.runTimeoutMs
        THEN Finalize([w EXCEPT !.runs[k].status = "timeout"], k)
        ELSE Finalize(w, k)

\* this.requestLimiter(() => chatCompletionWithRetry(...)): p-limit runs the
\* call at once while fewer than modelConcurrency calls are active, and
\* queues it otherwise
IssueRequest(w, k) ==
  IF w.active < ModelConcurrency(scenario)
    THEN [w EXCEPT !.active = @ + 1,
                   !.runs[k].pc = "agent",
                   !.runs[k].agentCalls = @ + 1]
    ELSE [w EXCEPT !.queue = Append(@, k), !.runs[k].pc = "queued"]

\* p-limit when a call settles: the next queued call, if any, starts
ReleaseRequest(w) ==
  IF w.queue = <<>>
    THEN [w EXCEPT !.active = @ - 1]
    ELSE [w EXCEPT !.queue = Tail(@),
                   !.runs[Head(w.queue)].pc = "agent",
                   !.runs[Head(w.queue)].agentCalls = @ + 1]

\* mutant: the head of the loop does not look at the clock
LoopHeadNoTimeout(w, k) ==
  LET r == w.runs[k]
  IN  IF r.stepIndex >= scenario.maxSteps THEN AfterLoop(w, k)
      ELSE LET w1 == Emit(w, "step_start", k, r.stepIndex)
           IN  IF Throws("step_start") THEN Fatal(w1, k)
               ELSE IssueRequest(w1, k)

\* head of the step loop: loop condition, run time-out, step_start, request
LoopHead(w, k) ==
  LET r == w.runs[k]
  IN  IF r.stepIndex >= scenario.maxSteps THEN AfterLoop(w, k)
      ELSE IF r.elapsed > scenario.runTimeoutMs
        THEN AfterLoop([w EXCEPT !.runs[k].status = "timeout"], k)
      ELSE LET w1 == Emit(w, "step_start", k, r.stepIndex)
           IN  IF Throws("step_start") THEN Fatal(w1, k)
               ELSE IssueRequest(w1, k)

\* steps.push(stepRecord); then the done check
RecordStep(w, k, record) ==
  LET w1 == [w EXCEPT !.runs[k].steps = Append(@, record)]
      r  == w1.runs[k]
  IN  IF r.env.done
        THEN AfterLoop([w1 EXCEPT !.runs[k].status =
                                     MapEnvStatus(r.env.status, r.status)], k)
        ELSE LoopHead([w1 EXCEPT !.runs[k].stepIndex = @ + 1], k)

\* mutant: a failed agent call counts as an invalid action too
InvalidByParseOrApi(apiError, parsed) == ~ parsed.ok

\* invalidActions++ stands in the catch of the parse block only, not in the
\* catch of the agent call
InvalidByParse(apiError, parsed) == ~ apiError /\ ~ parsed.ok

\* the rest of the loop body once the agent call has settled with resp
ProcessResponse(w, k, resp) ==
  LET r        == w.runs[k]
      apiError == resp.kind = "api_error"
      parsed   == IF apiError THEN [ok |-> FALSE]
                  ELSE ParseAction(scenario.task, resp.content)
      error    == IF apiError THEN "api" ELSE IF ~ parsed.ok THEN "parse" ELSE "null"
      usage    == IF apiError THEN NoUsage ELSE resp.usage
      r1 == [r EXCEPT
               !.elapsed = @ + resp.latencyMs,
               !.invalidActions = IF InvalidByParse(apiError, parsed) THEN @ + 1 ELSE @,
               !.totalLatencyMs = @ + resp.latencyMs,
               !.totalPromptTokens =
                  IF usage.present THEN @ + usage.promptTokens ELSE @,
               !.totalCompletionTokens =
                  IF usage.present THEN @ + usage.completionTokens ELSE @]
      w1 == Emit([w EXCEPT !.runs[k] = r1], "step_complete", k, r.stepIndex)
      record(action, feedback, err, observation) ==
        [stepIndex    |-> r.stepIndex,
         observation  |-> observation.stateVersion,
         parsedAction |-> action,
         envFeedback  |-> feedback,
         usage        |-> usage,
         latencyMs    |-> resp.latencyMs,
         error        |-> err]
  IN  IF Throws("step_complete") THEN Fatal(w1, k)
      ELSE IF error # "null"
        THEN RecordStep(w1, k, record("null", NoFeedback, error, r1.observation))
      ELSE IF r1.env = NoState \/ r1.env.done
        THEN \* env.step throws: catch (envError)
             RecordStep([w1 EXCEPT !.runs[k].invalidActions = @ + 1], k,
                        record(parsed.action.action, NoFeedback, "env",
                               r1.observation))
      ELSE
        LET res     == EnvStep(scenario.task, r1.env, parsed.action)
            invalid == res.feedback.result = "invalid_action"
            w2 == [w1 EXCEPT !.runs[k].env = res.state,
                             !.runs[k].observation = res.state,
                             !.runs[k].invalidActions =
                                IF invalid THEN @ + 1 ELSE @]
        IN  IF invalid /\ CapReached(w2.runs[k].invalidActions)
              THEN AfterLoop([w2 EXCEPT !.runs[k].status = "fail"], k)
              ELSE RecordStep(w2, k,
                              record(parsed.action.action, res.feedback, "null",
                                     res.state))

\* an exception leaves runSingleEvaluation: the catch of processPuzzles
\* emits an error event; if that throws, processPuzzles itself rejects
RunThrows(w, k) ==
  LET w1 == Emit([w EXCEPT !.runs[k].pc = "threw"], "error", k, -1)
  IN  IF Throws("error") THEN [w1 EXCEPT !.pc = "rejected"] ELSE w1

\* runSingleEvaluation returns: results.push(result)
RunReturns(w, k) ==
  [w EXCEPT !.runs[k].pc = "returned",
            !.results = Append(@, [run |-> k, summary |-> w.runs[k].summary])]

\* mutant: the runs are started without awaiting the previous one
MayStartNextNoAwait(w) == TRUE

\* await this.runSingleEvaluation(...): the loop of processPuzzles goes on
\* only when the run it started has returned or thrown
MayStartNext(w) ==
  \A k \in DOMAIN w.runs : w.runs[k].pc \in {"unstarted", "returned", "threw"}

\* ------------------------------------------------------------------------
\* What a crossword request tells the agent about the actions it may take
\* ------------------------------------------------------------------------
\* the actions described under AVAILABLE ACTIONS by getRulesText()
CwRulesTextActions(st) ==
  {"fill_entry", "clear_entry", "submit_puzzle", "give_up"}
    \cup (IF st.config.allowChecks THEN {"check_entry"} ELSE {})

\* the example actions of CROSSWORD_SYSTEM_PROMPT, a constant text
CwSystemPromptActions ==
  {"fill_entry", "clear_entry", "check_entry", "submit_puzzle", "give_up"}

\* the enum of "action" in the schema chosen by getJsonSchema
CwJsonSchemaActions(sc) ==
  IF sc.allowChecks
    THEN {"fill_entry", "clear_entry", "check_entry", "submit_puzzle", "give_up"}
    ELSE {"fill_entry", "clear_entry", "submit_puzzle", "give_up"}

\* the request of a crossword step: buildMessages(task, observation) and
\* response_format, reduced to the action names each part offers
CwRequest(sc, observation) ==
  [systemPrompt   |-> CwSystemPromptActions,
   allowedActions |-> CwAllowedActions(observation),
   rules          |-> CwRulesTextActions(observation),
   responseSchema |-> CwJsonSchemaActions(sc)]

\* ------------------------------------------------------------------------
\* OpenRouterClient: one call of chatCompletionWithRetry
\* ------------------------------------------------------------------------
ClientIdle == [pc |-> "idle"]

\* the options of the call made by the step loop: timeoutMs is
\* config.stepTimeoutMs (its default), baseDelayMs and maxDelayMs are the
\* defaults of chatCompletionWithRetry
StepLoopOptions ==
  [timeoutMs |-> 60000, maxRetries |-> 3, baseDelayMs |-> 1000, maxDelayMs |-> 30000]

\* what fetch() and the reading of the response may do in one attempt: an
\* HTTP response (with or without choices in its body), the abort of the
\* request by the step time-out, a network error, a thrown non-Error value
HttpStatuses == {200, 400, 401, 404, 408, 429, 500, 599}

RawOutcomes ==
  {[kind |-> "response", status |-> st, choices |-> TRUE] : st \in HttpStatuses}
    \cup {[kind |-> "response", status |-> 200, choices |-> FALSE],
          [kind |-> "abort"], [kind |-> "network"], [kind |-> "unknown"]}

\* the least time an attempt with this outcome takes: the abort is fired by
\* setTimeout(() => timeoutController.abort(), timeoutMs), armed anew in
\* every chatCompletion call; any other outcome may come at once
MinAttemptMs(options, raw) == IF raw.kind = "abort" THEN options.timeoutMs ELSE 0

\* new OpenRouterError(message, statusCode)
OpenRouterError(statusCode) == [ok |-> FALSE, statusCode |-> statusCode]

\* chatCompletion: the result, or the OpenRouterError it throws
ChatCompletion(raw) ==
  IF raw.kind = "response"
    THEN IF raw.status \notin 200..299 THEN OpenRouterError(raw.status)
         ELSE IF ~ raw.choices THEN OpenRouterError(0)
         ELSE [ok |-> TRUE]
  ELSE IF raw.kind = "abort" THEN OpenRouterError(408)
  ELSE OpenRouterError(0)

\* mutant: every error with an HTTP status is retried
IsRetryableErrorAnyStatus(error) == error.statusCode >= 400

\* OpenRouterClient.isRetryableError
IsRetryableError(error) ==
  \/ error.statusCode = 429
  \/ error.statusCode = 408
  \/ (error.statusCode >= 500 /\ error.statusCode < 600)

\* Math.random() * 1000, at its two ends
Jitters == {0, 999}

Min(a, b) == IF a < b THEN a ELSE b

\* Math.min(baseDelayMs * Math.pow(2, attempt) + jitter, maxDelayMs)
Delay(options, attempt, jitter) ==
  Min(options.baseDelayMs * (2 ^ attempt) + jitter, options.maxDelayMs)

\* chatCompletionWithRetry is called: attempt 0 is under way
NewCall(options) ==
  [pc      |-> "request",
   options |-> options,
   attempt |-> 0,
   calls   |-> <<>>,
   sleeps  |-> <<>>,
   error   |-> "null"]

\* the body of the retry loop once the attempt has settled: return, throw,
\* or start the back-off sleep
AttemptSettled(c, raw, jitter) ==
  LET res == ChatCompletion(raw)
      c1  == [c EXCEPT !.calls = Append(@, [raw    |-> raw,
                                            result |-> res,
                                            ms     |-> MinAttemptMs(c.options, raw)])]
  IN  IF res.ok THEN [c1 EXCEPT !.pc = "returned"]
      ELSE IF ~ IsRetryableError(res) \/ c.attempt = c.options.maxRetries
        THEN [c1 EXCEPT !.pc = "threw", !.error = res]
      ELSE [c1 EXCEPT !.pc = "sleep",
                      !.sleeps = Append(@, Delay(c.options, c.attempt, jitter))]

\* ------------------------------------------------------------------------
\* Specification of ConnectionsEnv
\* ------------------------------------------------------------------------
connVars == <<conn, connOut>>

cwVars == <<cw, cwOut>>

runnerVars == <<scenario, wk, suite, faults, client>>

vars == <<conn, connOut, cw, cwOut, scenario, wk, suite, faults, client>>

\* no suite is running
RunnerIdle ==
  /\ scenario = BaseScenario
  /\ wk = <<>>
  /\ suite = [pc |-> "idle"]
  /\ faults = 0
  /\ client = ClientIdle

ConnInit ==
  /\ conn \in {ConnReset(pid) : pid \in PuzzleIds}
  /\ connOut = NoOut

CwIdle == cw = NoState /\ cwOut = NoOut

ConnIdle == conn = NoState /\ connOut = NoOut

\* step() on a game in progress
ConnStepAccepted ==
  /\ conn # NoState
  /\ ~ conn.done
  /\ conn.stateVersion < MaxEnvSteps
  /\ \E a \in ConnActions :
       LET r == ConnStep(conn, a)
       IN  /\ conn' = r.state
           /\ connOut' = [kind |-> "returned", feedback |-> r.feedback]
  /\ UNCHANGED <<cwVars, runnerVars>>

\* step() on a finished game: throws "Game is already finished."
ConnStepRefused ==
  /\ conn.done
  /\ connOut' = [kind |-> "threw"]
  /\ UNCHANGED <<conn, cwVars, runnerVars>>

ConnNext == ConnStepAccepted \/ ConnStepRefused

\* a ConnectionsEnv alone: nothing else was constructed
ConnAlone == ConnInit /\ CwIdle /\ RunnerIdle

SpecConn == ConnAlone /\ [][ConnNext]_vars

\* ------------------------------------------------------------------------
\* Specification of CrosswordEnv
\* ------------------------------------------------------------------------
CwInit ==
  /\ cw \in {CwReset(c) : c \in CwConfigs}
  /\ cwOut = NoOut

\* step() on a game in progress
CwStepAccepted ==
  /\ cw # NoState
  /\ ~ cw.done
  /\ cw.stateVersion < MaxCwSteps
  /\ \E a \in CwActions :
       LET r == CwStep(cw, a)
       IN  /\ cw' = r.state
           /\ cwOut' = [kind |-> "returned", feedback |-> r.feedback]
  /\ UNCHANGED <<connVars, runnerVars>>

\* mutant: the finished game still takes the action
CwStepNotRefused ==
  /\ cw.done
  /\ cw.stateVersion < MaxCwSteps + 1
  /\ \E a \in CwActions :
       LET r == CwStep(cw, a)
       IN  /\ cw' = r.state
           /\ cwOut' = [kind |-> "returned", feedback |-> r.feedback]
  /\ UNCHANGED <<connVars, runnerVars>>

\* step() on a finished game: throws "Game is already finished."
CwStepRefused ==
  /\ cw.done
  /\ cwOut' = [kind |-> "threw"]
  /\ UNCHANGED <<cw, connVars, runnerVars>>

CwNext == CwStepAccepted \/ CwStepRefused

\* a CrosswordEnv alone
CwAlone == CwInit /\ ConnIdle /\ RunnerIdle

SpecCross == CwAlone /\ [][CwNext]_vars

\* ------------------------------------------------------------------------
\* Specification of an environment of either kind
\* ------------------------------------------------------------------------
EnvInit == ConnAlone \/ CwAlone

EnvNext == ConnNext \/ CwNext

SpecEnv == EnvInit /\ [][EnvNext]_vars

\* ------------------------------------------------------------------------
\* Specification of ConcurrentRunner.runSuite.  Code between two awaits runs
\* without interruption, so each action is the code that runs when one
\* awaited operation settles, up to the next await.
\* ------------------------------------------------------------------------
envVars == <<conn, connOut, cw, cwOut>>

\* whether the awaited file operation succeeds
IoOutcomes ==
  IF scenario.ioFaults /\ faults < MaxFaults THEN {TRUE, FALSE} ELSE {TRUE}

CountFault(ok) == faults' = IF ok THEN faults ELSE faults + 1

RunnerInit ==
  /\ scenario \in Scenarios
  /\ wk = [m \in ModelsOf(scenario) |-> NewWorker(scenario)]
  /\ suite = [pc |-> "running"]
  /\ faults = 0
  /\ client = ClientIdle
  /\ ConnIdle /\ CwIdle

\* processPuzzles: the next (puzzle, repeat) iteration calls
\* runSingleEvaluation, which awaits mkdir
StartRun(m) ==
  LET w == wk[m]
  IN  /\ w.pc = "looping"
      /\ w.next <= NumRuns(scenario)
      /\ MayStartNext(w)
      /\ wk' = [wk EXCEPT ![m] = [w EXCEPT !.runs[w.next].pc = "mkdir",
                                           !.next = @ + 1]]
      /\ UNCHANGED <<scenario, suite, faults, envVars, client>>

\* mkdir settled: run_start, the locals, reset(), then the head of the loop
MkdirDone(m, k) ==
  LET w == wk[m]
  IN  /\ w.runs[k].pc = "mkdir"
      /\ \E ok \in IoOutcomes :
           /\ CountFault(ok)
           /\ IF ~ ok THEN wk' = [wk EXCEPT ![m] = RunThrows(w, k)]
              ELSE LET w1 == Emit([w EXCEPT !.files[k].dir = TRUE], "run_start", k, -1)
                       w2 == [w1 EXCEPT !.runs[k].env = EnvReset(scenario),
                                        !.runs[k].observation = EnvReset(scenario)]
                   IN  wk' = [wk EXCEPT ![m] =
                                IF Throws("run_start") THEN RunThrows(w1, k)
                                ELSE LoopHead(w2, k)]
      /\ UNCHANGED <<scenario, suite, envVars, client>>

\* the agent call settled: the rest of the loop body and the next loop head
AgentDone(m, k) ==
  LET w == wk[m]
  IN  /\ w.runs[k].pc = "agent"
      /\ \E resp \in ResponseSets[scenario.responses] :
           wk' = [wk EXCEPT ![m] = ProcessResponse(ReleaseRequest(w), k, resp)]
      /\ UNCHANGED <<scenario, suite, faults, envVars, client>>

\* mutant: the steps file is not there yet when the run goes on
StepsWrittenLater(w, k) == w

\* writeSteps wrote all StepRecords of the run to the steps file
StepsWritten(w, k) == [w EXCEPT !.files[k].steps = File(w.runs[k].steps)]

\* writeSteps settled: the summary is written to summary.json.tmp
WriteStepsDone(m, k) ==
  LET w == wk[m]
  IN  /\ w.runs[k].pc = "writeSteps"
      /\ \E ok \in IoOutcomes :
           /\ CountFault(ok)
           /\ wk' = [wk EXCEPT ![m] =
                       IF ok THEN [StepsWritten(w, k) EXCEPT !.runs[k].pc = "writeTmp"]
                       ELSE RunThrows(w, k)]
      /\ UNCHANGED <<scenario, suite, envVars, client>>

\* the first part of the summary's JSON text
PartialSummary == [status |-> "partial"]

\* mutant: the summary is written straight to summary.json
PartWrittenInPlace(w, k, left) == [w EXCEPT !.files[k].summary = left]

\* writeFile(summaryTmpPath, ...) stopped on the way: nothing, or a part of
\* the text, is in summary.json.tmp
PartWritten(w, k, left) == [w EXCEPT !.files[k].tmp = left]

\* writeFile(summary.json.tmp) settled; a failed write may leave a part
WriteTmpDone(m, k) ==
  LET w == wk[m]
  IN  /\ w.runs[k].pc = "writeTmp"
      /\ \E ok \in IoOutcomes :
           /\ CountFault(ok)
           /\ IF ok
                THEN wk' = [wk EXCEPT ![m] =
                              [w EXCEPT !.files[k].tmp = File(w.runs[k].summary),
                                        !.runs[k].pc = "rename"]]
                ELSE \E left \in {NoFile, File(PartialSummary)} :
                       wk' = [wk EXCEPT ![m] = RunThrows(PartWritten(w, k, left), k)]
      /\ UNCHANGED <<scenario, suite, envVars, client>>

\* rename settled: run_complete is emitted and the run returns
RenameDone(m, k) ==
  LET w == wk[m]
  IN  /\ w.runs[k].pc = "rename"
      /\ \E ok \in IoOutcomes :
           /\ CountFault(ok)
           /\ IF ~ ok THEN wk' = [wk EXCEPT ![m] = RunThrows(w, k)]
              ELSE LET w1 == Emit([w EXCEPT !.files[k].summary = w.files[k].tmp,
                                            !.files[k].tmp = NoFile],
                                  "run_complete", k, -1)
                   IN  wk' = [wk EXCEPT ![m] =
                                IF Throws("run_complete") THEN RunThrows(w1, k)
                                ELSE RunReturns(w1, k)]
      /\ UNCHANGED <<scenario, suite, envVars, client>>

\* processPuzzles after its loops: worker_idle, return results
WorkerIdle(m) ==
  LET w == wk[m]
  IN  /\ w.pc = "looping"
      /\ w.next > NumRuns(scenario)
      /\ MayStartNext(w)
      /\ wk' = [wk EXCEPT ![m] =
                  [Emit(w, "worker_idle", -1, -1) EXCEPT
                     !.pc = IF Throws("worker_idle") THEN "rejected" ELSE "returned"]]
      /\ UNCHANGED <<scenario, suite, faults, envVars, client>>

\* await Promise.all(workerPromises): every worker returned
SuiteReturns ==
  /\ suite.pc = "running"
  /\ \A m \in DOMAIN wk : wk[m].pc = "returned"
  /\ suite' = [pc |-> "returned", results |-> [m \in DOMAIN wk |-> wk[m].results]]
  /\ UNCHANGED <<scenario, wk, faults, envVars, client>>

\* await Promise.all(workerPromises): a worker rejected, runSuite throws
SuiteRejects ==
  /\ suite.pc = "running"
  /\ \E m \in DOMAIN wk : wk[m].pc = "rejected"
  /\ suite' = [pc |-> "rejected"]
  /\ UNCHANGED <<scenario, wk, faults, envVars, client>>

RunnerNext ==
  \/ \E m \in Models : m \in DOMAIN wk /\ StartRun(m)
  \/ \E m \in Models : m \in DOMAIN wk /\ \E k \in DOMAIN wk[m].runs : MkdirDone(m, k)
  \/ \E m \in Models : m \in DOMAIN wk /\ \E k \in DOMAIN wk[m].runs : AgentDone(m, k)
  \/ \E m \in Models : m \in DOMAIN wk /\ \E k \in DOMAIN wk[m].runs : WriteStepsDone(m, k)
  \/ \E m \in Models : m \in DOMAIN wk /\ \E k \in DOMAIN wk[m].runs : WriteTmpDone(m, k)
  \/ \E m \in Models : m \in DOMAIN wk /\ \E k \in DOMAIN wk[m].runs : RenameDone(m, k)
  \/ \E m \in Models : m \in DOMAIN wk /\ WorkerIdle(m)
  \/ SuiteReturns
  \/ SuiteRejects

SpecRunner == RunnerInit /\ [][RunnerNext]_vars

\* every awaited operation (file operation, agent call) settles in finite
\* time and the event loop runs the continuation that is ready
SpecRunnerFair == SpecRunner /\ WF_vars(RunnerNext)

\* ------------------------------------------------------------------------
\* Specification of one chatCompletionWithRetry call of the step loop
\* ------------------------------------------------------------------------
ClientAlone ==
  /\ client = NewCall(StepLoopOptions)
  /\ scenario = BaseScenario
  /\ wk = <<>>
  /\ suite = [pc |-> "idle"]
  /\ faults = 0
  /\ ConnIdle /\ CwIdle

\* await this.chatCompletion(...) settled
AttemptDone ==
  /\ client.pc = "request"
  /\ \E raw \in RawOutcomes, jitter \in Jitters :
       client' = AttemptSettled(client, raw, jitter)
  /\ UNCHANGED <<scenario, wk, suite, faults, envVars>>

\* await this.sleep(delay) settled: attempt++ and the next attempt starts
SleepDone ==
  /\ client.pc = "sleep"
  /\ client' = [client EXCEPT !.attempt = @ + 1, !.pc = "request"]
  /\ UNCHANGED <<scenario, wk, suite, faults, envVars>>

ClientNext == AttemptDone \/ SleepDone

SpecClient == ClientAlone /\ [][ClientNext]_vars

\* ------------------------------------------------------------------------
\* Properties of ConnectionsEnv
\* ------------------------------------------------------------------------
\* words up to letter case and surrounding blanks
BaseSet(ws) == {ws[i][1] : i \in DOMAIN ws}

Submit(ws) == [action |-> "submit_group", words |-> ws]

\* exactly 4 words, pairwise different, all of them remaining
WellFormed(st, ws) ==
  /\ Len(ws) = 4
  /\ Cardinality(BaseSet(ws)) = 4
  /\ BaseSet(ws) \subseteq BaseSet(st.remainingWords)

IsWholeGroup(st, ws) ==
  \E g \in 1..4 : BaseSet(ws) = BaseSet(Puzzles[st.puzzle].groups[g].words)

Recorded(st, kind, result) ==
  CopiesIn([action |-> kind, result |-> result], st.history)

Incorrects(st) == Recorded(st, "submit_group", "incorrect")

ConnStepped == conn'.stateVersion = conn.stateVersion + 1

\* C1: in every in-progress state a submission of 4 distinct remaining words
\* is scored correct iff its words are exactly the words of one group of the
\* puzzle, whatever their order and letter case, and incorrect otherwise.
C1_CorrectIffWholeGroup ==
  ~ conn.done =>
    \A ws \in Submissions :
      WellFormed(conn, ws) =>
        LET res == ConnStep(conn, Submit(ws)).feedback.result
        IN  /\ res \in {"correct", "incorrect"}
            /\ res = "correct" <=> IsWholeGroup(conn, ws)

\* a whole group written in lower or mixed case was accepted on the sample
\* puzzle, after an incorrect submission
C1_Witness ==
  /\ conn.puzzle = "A"
  /\ connOut.kind = "returned"
  /\ connOut.feedback.result = "correct"
  /\ connOut.feedback.foundGroup = 2
  /\ Incorrects(conn) = 1

C2_IncorrectStep ==
  (ConnStepped /\ connOut'.feedback.result = "incorrect") =>
    /\ conn'.mistakesLeft = conn.mistakesLeft - 1
    /\ conn'.remainingWords = conn.remainingWords
    /\ conn'.foundGroups = conn.foundGroups
    /\ IF Incorrects(conn') = 4
         THEN /\ connOut'.feedback.done
              /\ connOut'.feedback.status = "fail"
              /\ conn'.done /\ conn'.status = "fail"
         ELSE /\ ~ connOut'.feedback.done
              /\ ~ conn'.done

\* C2: an incorrect submission costs exactly one mistake and changes neither
\* the remaining words nor the discovered groups; the step with the 4th
\* incorrect outcome ends the game with status fail, the game is never fail
\* before it, and nothing is accepted after it.
C2_FourthIncorrectFails ==
  /\ [](conn.status = "fail" <=> Incorrects(conn) = 4)
  /\ [][C2_IncorrectStep /\ (conn.status = "fail" => conn' = conn)]_vars

\* the game failed on its fifth step, with another step among the incorrect
\* ones, and a later call was refused
C2_Witness ==
  /\ conn.status = "fail"
  /\ HistoryLength(conn.history) = 5
  /\ Recorded(conn, "submit_group", "invalid_action") = 1
  /\ connOut.kind = "threw"

\* some group none of whose words was found yet holds exactly 3 of the words
ThreeOfAnUndiscoveredGroup(st, ws) ==
  \E g \in 1..4 :
    /\ ~ Includes(st.foundGroups, g)
    /\ Cardinality(BaseSet(ws) \cap BaseSet(Puzzles[st.puzzle].groups[g].words)) = 3

\* C9: on every incorrect submission oneAway is true iff some single
\* undiscovered group contains exactly 3 of the 4 submitted words.
C9_OneAwayIffThreeOfUndiscovered ==
  ~ conn.done =>
    \A ws \in Submissions :
      LET fb == ConnStep(conn, Submit(ws)).feedback
      IN  fb.result = "incorrect" =>
            (fb.oneAway <=> ThreeOfAnUndiscoveredGroup(conn, ws))

Malformed(st, ws) ==
  \/ Len(ws) # 4
  \/ Cardinality(BaseSet(ws)) # Len(ws)
  \/ ~ (BaseSet(ws) \subseteq BaseSet(st.remainingWords))

\* C10 as stated: a malformed submit_group returns invalid_action and leaves
\* the whole environment state as it was.
C10_InvalidChangesNothing ==
  ~ conn.done =>
    \A ws \in Submissions :
      Malformed(conn, ws) =>
        LET r == ConnStep(conn, Submit(ws))
        IN  /\ r.feedback.result = "invalid_action"
            /\ r.state = conn

\* C10 amended: a malformed submit_group returns invalid_action with
\* done = false and changes neither the remaining words, the discovered
\* groups, mistakes left nor the status; the call is still recorded: the
\* history gains one entry and the state version grows by one.
C10_InvalidOnlyRecorded ==
  ~ conn.done =>
    \A ws \in Submissions :
      Malformed(conn, ws) =>
        LET r == ConnStep(conn, Submit(ws))
        IN  /\ r.feedback.result = "invalid_action"
            /\ ~ r.feedback.done
            /\ ~ r.state.done
            /\ r.state.status = "in_progress"
            /\ r.state.remainingWords = conn.remainingWords
            /\ r.state.foundGroups = conn.foundGroups
            /\ r.state.mistakesLeft = conn.mistakesLeft
            /\ r.state.history =
                 conn.history (+) SetToBag({[action |-> "submit_group",
                                             result |-> "invalid_action"]})
            /\ r.state.stateVersion = conn.stateVersion + 1

\* a submit_group was rejected after a group had been found, and the game
\* went on
C10_Witness ==
  /\ connOut.kind = "returned"
  /\ connOut.feedback.result = "invalid_action"
  /\ Recorded(conn, "submit_group", "invalid_action") = 1
  /\ Recorded(conn, "unknown", "invalid_action") = 0
  /\ Len(conn.foundGroups) = 1
  /\ ~ conn.done

\* ------------------------------------------------------------------------
\* Properties of both environments
\* ------------------------------------------------------------------------
TerminalStatuses ==
  {"success", "fail", "gave_up", "success_clean", "success_with_reveals"}

\* C3: once the status of an environment is terminal, every further step
\* call is refused with an error and leaves the whole environment state
\* (status, history, step counter, words or grid, counters) unchanged.
C3_TerminalAbsorbing ==
  [][/\ conn.status \in TerminalStatuses =>
          conn' = conn /\ connOut'.kind = "threw"
     /\ cw.status \in TerminalStatuses =>
          cw' = cw /\ cwOut'.kind = "threw"]_vars

\* a crossword solved with a clean submit refused a later step
C3_Witness ==
  /\ cw.status = "success_clean"
  /\ cw.done
  /\ cwOut.kind = "threw"

\* ------------------------------------------------------------------------
\* Properties of the step loop, the workers and the suite
\* ------------------------------------------------------------------------
RunIds == {<<m, k>> : m \in DOMAIN wk, k \in 1..NumRuns(scenario)}

RunOf(id) == wk[id[1]].runs[id[2]]

FilesOf(id) == wk[id[1]].files[id[2]]

\* the locals of the run were summed up in a RunSummary
Summarized(id) == RunOf(id).summary # NoSummary

RunStatuses ==
  {"success", "success_clean", "success_with_reveals", "fail", "timeout", "error"}

\* C4: once the invalid-action count of a run (environment invalid_action
\* outcomes and parse failures together) has reached maxInvalidActions, no
\* agent call is made any more and the run ends with status fail, so the
\* invalidActions of a finished run never exceed maxInvalidActions.
C4_InvalidCapStopsRun ==
  \A id \in RunIds :
    /\ RunOf(id).pc \in {"agent", "queued"} =>
         RunOf(id).invalidActions < scenario.maxInvalidActions
    /\ Summarized(id) =>
         /\ RunOf(id).summary.invalidActions <= scenario.maxInvalidActions
         /\ RunOf(id).summary.invalidActions = scenario.maxInvalidActions =>
              RunOf(id).summary.status = "fail"

\* the record of the step on which the environment reported done is the
\* last one and belongs to the last agent call
DoneStepIsLast(r) ==
  /\ r.steps # <<>>
  /\ r.steps[Len(r.steps)].envFeedback.result # "null"
  /\ r.steps[Len(r.steps)].envFeedback.done
  /\ r.steps[Len(r.steps)].stepIndex = r.agentCalls - 1
  /\ \A i \in 1..(Len(r.steps) - 1) :
       r.steps[i].envFeedback.result # "null" => ~ r.steps[i].envFeedback.done

NoCallAfterDone ==
  \A m \in DOMAIN wk : \A k \in DOMAIN wk[m].runs :
    wk[m].runs[k].env.done =>
      wk'[m].runs[k].agentCalls = wk[m].runs[k].agentCalls

\* C5 as stated: when the environment reports done, RunSummary.status is the
\* environment's terminal status unchanged, gave_up included.
C5_DoneStatusPassedThrough ==
  \A id \in RunIds :
    (Summarized(id) /\ RunOf(id).env.done) =>
      RunOf(id).summary.status = RunOf(id).env.status

\* C5 amended: when the environment reports done on a step, that step's
\* record is the last one of the run, no further agent call is made, and
\* RunSummary.status is the environment's status for success, fail,
\* success_clean and success_with_reveals, and fail for gave_up.
C5_DoneStatusMapped ==
  /\ [](\A id \in RunIds :
          RunOf(id).env.done =>
            /\ RunOf(id).pc \notin {"agent", "queued"}
            /\ Summarized(id)
            /\ DoneStepIsLast(RunOf(id))
            /\ RunOf(id).summary.stepsTaken = Len(RunOf(id).steps)
            /\ RunOf(id).summary.status =
                 IF RunOf(id).env.status = "gave_up" THEN "fail"
                 ELSE RunOf(id).env.status)
  /\ [][NoCallAfterDone]_vars

\* a crossword run ended by a clean submit on its third step, and its
\* summary was renamed into place
C5_Witness ==
  \E id \in RunIds :
    /\ RunOf(id).env.status = "success_clean"
    /\ RunOf(id).summary.status = "success_clean"
    /\ Len(RunOf(id).steps) = 3
    /\ FilesOf(id).summary.exists

\* C6: every run that was started ends with a summary file whose status is
\* one of the fixed set, whatever fails on the way.
C6_EndedRunHasSummary ==
  \A id \in RunIds :
    RunOf(id).pc \in {"returned", "threw"} =>
      /\ FilesOf(id).summary.exists
      /\ FilesOf(id).summary.content.status \in RunStatuses

\* C7: an exception escaping one run never aborts the suite: no worker stops
\* before its last run and runSuite does not throw; when all workers are
\* through, runSuite returns the results of all runs that returned.
C7_RunFailureNeverAbortsSuite ==
  /\ suite.pc # "rejected"
  /\ \A m \in DOMAIN wk : wk[m].pc # "rejected"
  /\ suite.pc = "returned" =>
       \A m \in DOMAIN wk : \A k \in DOMAIN wk[m].runs :
         wk[m].runs[k].pc = "returned" =>
           \E i \in DOMAIN suite.results[m] : suite.results[m][i].run = k

Active(w) == {k \in DOMAIN w.runs : w.runs[k].pc \notin {"unstarted", "returned", "threw"}}

\* every run_start but the first one comes after the run_complete or the
\* error event of the run before
RunsDoNotOverlap(w) ==
  \A i, j \in DOMAIN w.events :
    (i < j /\ w.events[i].type = "run_start" /\ w.events[j].type = "run_start") =>
      \E l \in (i + 1)..(j - 1) :
        /\ w.events[l].type \in {"run_complete", "error"}
        /\ w.events[l].run = w.events[i].run

\* C8: within one worker at most one run is active at any time and a run is
\* over before the run_start of the next one; so at most one agent request
\* per model is in flight and the request limiter never makes one wait.
C8_OneRunPerWorker ==
  \A m \in DOMAIN wk :
    /\ Cardinality(Active(wk[m])) <= 1
    /\ RunsDoNotOverlap(wk[m])
    /\ Cardinality({k \in DOMAIN wk[m].runs : wk[m].runs[k].pc = "agent"}) <= 1
    /\ wk[m].active = Cardinality({k \in DOMAIN wk[m].runs : wk[m].runs[k].pc = "agent"})
    /\ wk[m].queue = <<>>
    /\ \A k \in DOMAIN wk[m].runs : wk[m].runs[k].pc # "queued"

\* the second run of a worker has its request in flight after the first run
\* returned, while the other worker is in the middle of a run
C8_Witness ==
  /\ Cardinality(DOMAIN wk) = 2
  /\ wk["m1"].runs[1].pc = "returned"
  /\ wk["m1"].runs[2].pc = "agent"
  /\ wk["m2"].runs[1].pc = "agent"

\* ------------------------------------------------------------------------
\* Further properties of ConnectionsEnv
\* ------------------------------------------------------------------------
InProgress(st) == st.status = "in_progress"

GroupBases(st, g) == BaseSet(Puzzles[st.puzzle].groups[g].words)

FoundBases(st) ==
  UNION {GroupBases(st, st.foundGroups[k]) : k \in DOMAIN st.foundGroups}

Corrects(st) == Recorded(st, "submit_group", "correct")

\* the 4 words of a group that was already accepted
Resubmission(st, ws) ==
  /\ Len(ws) = 4
  /\ \E k \in DOMAIN st.foundGroups : BaseSet(ws) = GroupBases(st, st.foundGroups[k])

\* C11: once a group was accepted, submitting its 4 words again, in any
\* order and letter case, returns invalid_action and changes neither the
\* discovered groups nor mistakes left; no group is ever accepted twice.
C11_ResubmissionIsInvalid ==
  InProgress(conn) =>
    /\ \A ws \in Submissions :
         Resubmission(conn, ws) =>
           LET r == ConnStep(conn, Submit(ws))
           IN  /\ r.feedback.result = "invalid_action"
               /\ r.state.foundGroups = conn.foundGroups
               /\ r.state.mistakesLeft = conn.mistakesLeft
    /\ Corrects(conn) = Len(conn.foundGroups)
    /\ \A j, k \in DOMAIN conn.foundGroups :
         conn.foundGroups[j] = conn.foundGroups[k] => j = k

\* on the lower-case puzzle two groups were found, the second before the
\* first, a submission was then refused and the game goes on
C11_Witness ==
  /\ InProgress(conn)
  /\ conn.puzzle = "B"
  /\ conn.foundGroups = <<2, 1>>
  /\ connOut.kind = "returned"
  /\ connOut.feedback.result = "invalid_action"
  /\ \E ws \in Submissions : Resubmission(conn, ws) /\ ws[1][2] = 2

C12_CorrectStep ==
  (ConnStepped /\ connOut'.feedback.result = "correct") =>
    LET g == connOut'.feedback.foundGroup
    IN  /\ conn'.foundGroups = Append(conn.foundGroups, g)
        /\ GroupBases(conn, g) \subseteq BaseSet(conn.remainingWords)
        /\ conn'.remainingWords =
             SelectSeq(conn.remainingWords, LAMBDA w : w[1] \notin GroupBases(conn, g))
        /\ Len(conn'.remainingWords) = Len(conn.remainingWords) - 4
        /\ conn'.mistakesLeft = conn.mistakesLeft
        /\ connOut'.feedback.done = (Len(conn'.foundGroups) = 4)
        /\ conn'.done = (Len(conn'.foundGroups) = 4)
        /\ conn'.status = IF Len(conn'.foundGroups) = 4 THEN "success"
                          ELSE "in_progress"

\* C12: a correct submission removes exactly its group's 4 words from the
\* remaining words, appends the group to the discovered groups and leaves
\* mistakes left alone; the game is success (and done) from the step that
\* brings the number of discovered groups to 4, and never with fewer.
C12_CorrectMovesGroup ==
  /\ [](conn.status = "success" <=> (conn.done /\ Len(conn.foundGroups) = 4))
  /\ [][C12_CorrectStep]_vars

\* the fourth group was accepted on the fifth step, after one mistake
C12_Witness ==
  /\ conn.status = "success"
  /\ connOut.kind = "returned"
  /\ connOut.feedback.result = "correct"
  /\ connOut.feedback.done
  /\ conn.mistakesLeft = 3
  /\ conn.remainingWords = <<>>

\* C13: in every state of a game the remaining words and the words of the
\* discovered groups are disjoint, and together they are the 16 words of the
\* puzzle, none of them twice.
C13_WordsPartitioned ==
  /\ BaseSet(conn.remainingWords) \cap FoundBases(conn) = {}
  /\ BaseSet(conn.remainingWords) \cup FoundBases(conn) =
       BaseSet(Puzzles[conn.puzzle].words)
  /\ Len(conn.remainingWords) = Cardinality(BaseSet(conn.remainingWords))
  /\ Len(conn.remainingWords) + 4 * Len(conn.foundGroups) = 16

\* three groups were found on the lower-case puzzle, with a mistake made
C13_Witness ==
  /\ conn.puzzle = "B"
  /\ Len(conn.foundGroups) = 3
  /\ Len(conn.remainingWords) = 4
  /\ conn.mistakesLeft = 3

C14_Step ==
  /\ conn'.mistakesLeft <= conn.mistakesLeft
  /\ (ConnStepped /\ connOut'.feedback.result = "invalid_action") =>
       /\ conn'.mistakesLeft = conn.mistakesLeft
       /\ ConnMetrics(conn') = ConnMetrics(conn)

\* C14: mistakes left starts at 4, never grows and stays within 0..4; the
\* metric mistakesMade is always the number of incorrect outcomes so far and
\* groupsFound the number of correct ones; invalid actions change neither.
C14_MistakesAndMetrics ==
  /\ conn.mistakesLeft = 4
  /\ [](/\ conn.mistakesLeft \in 0..4
        /\ ConnMetrics(conn).mistakesMade = Incorrects(conn)
        /\ ConnMetrics(conn).groupsFound = Corrects(conn))
  /\ [][C14_Step]_vars

\* two mistakes, one group and an invalid action, the invalid action last
C14_Witness ==
  /\ ConnMetrics(conn) = [mistakesMade |-> 2, groupsFound |-> 1]
  /\ Recorded(conn, "submit_group", "invalid_action") = 1
  /\ HistoryLength(conn.history) = 4
  /\ connOut.kind = "returned"
  /\ connOut.feedback.result = "invalid_action"

\* ------------------------------------------------------------------------
\* Further properties of both environments
\* ------------------------------------------------------------------------
GiveUp == [action |-> "give_up"]

GaveUp(r) ==
  /\ r.feedback.result = "gave_up"
  /\ r.feedback.done
  /\ r.feedback.status = "gave_up"
  /\ r.state.done
  /\ r.state.status = "gave_up"

\* C15: in both environments give_up from an in-progress state returns
\* gave_up with done = true and sets the status to gave_up, and it changes
\* neither the remaining words, discovered groups and mistakes left
\* (Connections) nor the grid, the known-wrong marks and checks-performed
\* (Crossword).
C15_GiveUpEndsGame ==
  /\ InProgress(conn) =>
       LET r == ConnStep(conn, GiveUp)
       IN  /\ GaveUp(r)
           /\ r.state.remainingWords = conn.remainingWords
           /\ r.state.foundGroups = conn.foundGroups
           /\ r.state.mistakesLeft = conn.mistakesLeft
  /\ InProgress(cw) =>
       LET r == CwStep(cw, GiveUp)
       IN  /\ GaveUp(r)
           /\ r.state.fillGrid = cw.fillGrid
           /\ r.state.checkedWrongCells = cw.checkedWrongCells
           /\ r.state.checksPerformed = cw.checksPerformed

\* a crossword was given up after a check had marked cells as wrong
C15_Witness ==
  /\ cw.status = "gave_up"
  /\ cw.done
  /\ cwOut.kind = "returned"
  /\ cwOut.feedback.result = "gave_up"
  /\ cw.checksPerformed = 1
  /\ cw.checkedWrongCells # {}

\* ------------------------------------------------------------------------
\* Properties of CrosswordEnv
\* ------------------------------------------------------------------------
NonBlock == {c \in Cells : CwPuzzle.solution[c] # "#"}

\* the non-block cells whose fill, "." included, is not the solution's letter
Mismatched(st) == {c \in NonBlock : st.fillGrid[c] # CwPuzzle.solution[c]}

NoDuplicates(seq) == Len(seq) = Cardinality(SeqToSet(seq))

\* the state st with the cells of R recorded as revealed
WithRevealed(st, R) == [st EXCEPT !.revealedCells = R]

\* C16: submit_puzzle always ends the game; with every non-block cell equal
\* to the solution the status is success_clean when no cell was revealed and
\* success_with_reveals when one was; otherwise the status is fail and
\* incorrectCells is exactly the set of non-block cells whose fill (empty
\* cells included) differs from the solution.  The outcome is checked for
\* every set of revealed cells.
C16_SubmitClassifies ==
  InProgress(cw) =>
    \A R \in SUBSET NonBlock :
      LET r == CwStep(WithRevealed(cw, R), [action |-> "submit_puzzle"])
      IN  /\ r.feedback.result = "submitted"
          /\ r.feedback.done
          /\ r.state.done
          /\ r.state.status = r.feedback.status
          /\ r.state.fillGrid = cw.fillGrid
          /\ IF Mismatched(cw) = {}
               THEN /\ r.feedback.success
                    /\ r.state.status = IF R = {} THEN "success_clean"
                                        ELSE "success_with_reveals"
               ELSE /\ ~ r.feedback.success
                    /\ r.state.status = "fail"
                    /\ SeqToSet(r.feedback.incorrectCells) = Mismatched(cw)
                    /\ NoDuplicates(r.feedback.incorrectCells)

\* a grid with one empty cell and one wrong letter was submitted
C16_Witness ==
  /\ cw.status = "fail"
  /\ cwOut.kind = "returned"
  /\ cwOut.feedback.result = "submitted"
  /\ cwOut.feedback.incorrectCells = <<0, 3>>
  /\ cw.fillGrid[0] = "."
  /\ cw.fillGrid[3] = "A"

CheckEntry(k) == [action |-> "check_entry", direction |-> k[1], number |-> k[2]]

EntryCells(k) == SeqToSet(ClueMap[k].cells)

\* checks disabled, no such clue, or an empty cell in the entry
CheckRefusable(st, k) ==
  \/ ~ st.config.allowChecks
  \/ k \notin ClueKeys
  \/ \E c \in EntryCells(k) : st.fillGrid[c] = "."

\* C17: check_entry returns invalid_action, without counting a check and
\* without changing the grid or the known-wrong marks, whenever checks are
\* disabled, the clue does not exist, or a cell of the entry is empty.
C17_CheckRefused ==
  InProgress(cw) =>
    \A k \in ClueRefs :
      CheckRefusable(cw, k) =>
        LET r == CwStep(cw, CheckEntry(k))
        IN  /\ r.feedback.result = "invalid_action"
            /\ ~ r.feedback.done
            /\ ~ r.state.done
            /\ r.state.checksPerformed = cw.checksPerformed
            /\ r.state.fillGrid = cw.fillGrid
            /\ r.state.checkedWrongCells = cw.checkedWrongCells

\* with checks allowed, a check was refused while an entry was filled, so
\* that some entry is filled in part only
C17_Witness ==
  /\ cw.config.allowChecks
  /\ cwOut.kind = "returned"
  /\ cwOut.feedback.result = "invalid_action"
  /\ Recorded(cw, "check_entry", "invalid_action") = 1
  /\ Recorded(cw, "fill_entry", "filled") = 1
  /\ HistoryLength(cw.history) = 2
  /\ \E k \in ClueKeys :
       /\ \E c \in EntryCells(k) : cw.fillGrid[c] = "."
       /\ \E c \in EntryCells(k) : cw.fillGrid[c] # "."

WrongIn(st, k) == {c \in EntryCells(k) : st.fillGrid[c] # CwPuzzle.solution[c]}

\* C18: an accepted check_entry on a fully filled entry returns as
\* wrongCells exactly the entry's cells whose letter differs from the
\* solution, and as newlyWrongCells exactly those not marked known-wrong
\* before; afterwards all wrongCells are marked, checks-performed has grown
\* by 1 and the grid is unchanged.
C18_CheckReportsWrongCells ==
  InProgress(cw) =>
    \A k \in ClueKeys :
      ~ CheckRefusable(cw, k) =>
        LET r == CwStep(cw, CheckEntry(k))
        IN  /\ r.feedback.result = "checked"
            /\ SeqToSet(r.feedback.wrongCells) = WrongIn(cw, k)
            /\ NoDuplicates(r.feedback.wrongCells)
            /\ SeqToSet(r.feedback.newlyWrongCells) =
                 WrongIn(cw, k) \ cw.checkedWrongCells
            /\ NoDuplicates(r.feedback.newlyWrongCells)
            /\ r.state.checkedWrongCells = cw.checkedWrongCells \cup WrongIn(cw, k)
            /\ r.state.checksPerformed = cw.checksPerformed + 1
            /\ r.state.fillGrid = cw.fillGrid
            /\ ~ r.state.done

\* an entry with two wrong letters was checked a second time: both cells
\* are reported wrong, none of them as new
C18_Witness ==
  /\ cwOut.kind = "returned"
  /\ cwOut.feedback.result = "checked"
  /\ cwOut.feedback.wrongCells = <<0, 1>>
  /\ cwOut.feedback.newlyWrongCells = <<>>
  /\ cw.checksPerformed = 2
  /\ cw.checkedWrongCells = {0, 1}

FillEntry(k, a) ==
  [action |-> "fill_entry", direction |-> k[1], number |-> k[2], answer |-> a]

IsLetter(c) == c \in {"A", "B", "a", "b"}

\* C19: fill_entry returns invalid_action and leaves the grid and the
\* known-wrong marks unchanged when the clue does not exist, when the
\* answer's length differs from the entry's length, or when the answer
\* contains a character that is not a letter.
C19_FillRefused ==
  InProgress(cw) =>
    \A k \in ClueRefs, a \in Answers :
      (\/ k \notin ClueKeys
       \/ Len(a) # ClueMap[k].length
       \/ \E i \in DOMAIN a : ~ IsLetter(a[i])) =>
        LET r == CwStep(cw, FillEntry(k, a))
        IN  /\ r.feedback.result = "invalid_action"
            /\ r.state.fillGrid = cw.fillGrid
            /\ r.state.checkedWrongCells = cw.checkedWrongCells

Upper(c) == CASE c = "a" -> "A" [] c = "b" -> "B" [] OTHER -> c

\* the letters of the answer, upper-cased, in order
LettersOf(a) ==
  LET ls == SelectSeq(a, IsLetter) IN [i \in DOMAIN ls |-> Upper(ls[i])]

\* C20: a fill_entry naming a clue with as many letters as the entry has
\* cells is accepted; an accepted fill_entry writes the answer's letters,
\* upper-cased and in order, into exactly the clue's cells, removes the
\* known-wrong mark from exactly those cells, and leaves all other cells and
\* marks, checks-performed and the status unchanged.
C20_FillWritesEntry ==
  InProgress(cw) =>
    \A k \in ClueRefs, a \in Answers :
      LET r == CwStep(cw, FillEntry(k, a))
      IN  /\ (k \in ClueKeys /\ Len(a) = ClueMap[k].length
                /\ \A i \in DOMAIN a : IsLetter(a[i])) =>
               r.feedback.result = "filled"
          /\ r.feedback.result = "filled" =>
               /\ k \in ClueKeys
               /\ Len(LettersOf(a)) = Len(ClueMap[k].cells)
               /\ \A i \in DOMAIN ClueMap[k].cells :
                    r.state.fillGrid[ClueMap[k].cells[i]] = LettersOf(a)[i]
               /\ \A c \in Cells \ EntryCells(k) :
                    r.state.fillGrid[c] = cw.fillGrid[c]
               /\ r.state.checkedWrongCells = cw.checkedWrongCells \ EntryCells(k)
               /\ r.state.checksPerformed = cw.checksPerformed
               /\ r.state.status = cw.status
               /\ r.state.done = cw.done

\* a down entry was written over the first letter of a checked across
\* entry: the mark of the shared cell is gone, the other one is kept
C20_Witness ==
  /\ cwOut.kind = "returned"
  /\ cwOut.feedback.result = "filled"
  /\ cw.checkedWrongCells = {1}
  /\ cw.checksPerformed = 1
  /\ cw.fillGrid[0] = "A"
  /\ cw.fillGrid[1] = "A"
  /\ cw.fillGrid[3] = "B"

ClearEntry(k) == [action |-> "clear_entry", direction |-> k[1], number |-> k[2]]

\* C21: clear_entry on an existing clue sets every cell of the clue that is
\* not revealed to empty, leaves revealed cells and all cells outside the
\* clue unchanged and does not end the game; on an unknown clue it returns
\* invalid_action and changes nothing in the grid.  The outcome is checked
\* for every set of revealed cells.
C21_ClearBlanksEntry ==
  InProgress(cw) =>
    \A k \in ClueRefs, R \in SUBSET NonBlock :
      LET r == CwStep(WithRevealed(cw, R), ClearEntry(k))
      IN  /\ ~ r.feedback.done
          /\ ~ r.state.done
          /\ r.state.status = "in_progress"
          /\ IF k \in ClueKeys
               THEN /\ r.feedback.result = "cleared"
                    /\ \A c \in Cells :
                         r.state.fillGrid[c] =
                           IF c \in EntryCells(k) \ R THEN "." ELSE cw.fillGrid[c]
               ELSE /\ r.feedback.result = "invalid_action"
                    /\ r.state.fillGrid = cw.fillGrid

\* a down entry was cleared after two across entries had been filled: the
\* cells it shares with them are empty, their other cells keep their letters
C21_Witness ==
  /\ cwOut.kind = "returned"
  /\ cwOut.feedback.result = "cleared"
  /\ cw.fillGrid[0] = "."
  /\ cw.fillGrid[3] = "."
  /\ cw.fillGrid[1] = "B"
  /\ cw.fillGrid[4] = "A"

\* ------------------------------------------------------------------------
\* Further properties of the step loop
\* ------------------------------------------------------------------------
\* the response is content that is no action of the task's schema
Unparseable(resp) ==
  /\ resp.kind = "content"
  /\ \/ ~ resp.content.json
     \/ resp.content.value.task # scenario.task
     \/ /\ resp.content.value.action = "submit_group"
        /\ Len(resp.content.value.words) # 4

\* no observer throws from inside a step (the case of C25 and C30)
QuietObservers == scenario.observerThrowsOn \cap {"step_start", "step_complete"} = {}

\* the run after its pending agent call settled with resp
AfterResponse(id, resp) ==
  ProcessResponse(ReleaseRequest(wk[id[1]]), id[2], resp).runs[id[2]]

\* the run goes on with the next step: the next request is out, unless the
\* step budget or the run time-out ends the run at the head of that step
NextStepEntered(r, r2) ==
  /\ r2.stepIndex = r.stepIndex + 1
  /\ IF r2.stepIndex >= scenario.maxSteps
       THEN r2.pc = "writeSteps" /\ r2.summary.status \in {"error", "timeout"}
     ELSE IF r2.elapsed > scenario.runTimeoutMs
       THEN r2.pc = "writeSteps" /\ r2.summary.status = "timeout"
     ELSE r2.pc = "agent" /\ r2.agentCalls = r.agentCalls + 1 /\ r2.summary = NoSummary

\* C22: when no exception escapes the step, an agent response that is not a
\* valid action of the task's schema counts as exactly one invalid action,
\* the environment state and the observation are unchanged, exactly one
\* StepRecord with the parse error and a null parsed action is appended, and
\* the run goes on with the next step.
C22_ParseFailureStep ==
  QuietObservers =>
    \A id \in RunIds :
      RunOf(id).pc = "agent" =>
        \A resp \in ResponseSets[scenario.responses] :
          Unparseable(resp) =>
            LET r  == RunOf(id)
                r2 == AfterResponse(id, resp)
            IN  /\ r2.invalidActions = r.invalidActions + 1
                /\ r2.env = r.env
                /\ r2.observation = r.observation
                /\ Len(r2.steps) = Len(r.steps) + 1
                /\ SubSeq(r2.steps, 1, Len(r.steps)) = r.steps
                /\ r2.steps[Len(r2.steps)].error = "parse"
                /\ r2.steps[Len(r2.steps)].parsedAction = "null"
                /\ r2.steps[Len(r2.steps)].envFeedback = NoFeedback
                /\ r2.steps[Len(r2.steps)].stepIndex = r.stepIndex
                /\ NextStepEntered(r, r2)

\* a run recorded a parse failure and then stepped the environment in the
\* step after it
C22_Witness ==
  \E id \in RunIds :
    \E i \in 1..(Len(RunOf(id).steps) - 1) :
      /\ RunOf(id).steps[i].error = "parse"
      /\ RunOf(id).steps[i + 1].error = "null"
      /\ RunOf(id).steps[i + 1].stepIndex = RunOf(id).steps[i].stepIndex + 1
      /\ RunOf(id).steps[i + 1].observation = RunOf(id).steps[i].observation + 1

\* C23: every step in which the agent was called appends exactly one
\* StepRecord before the run ends, the step that trips the invalid-action
\* cap included: when no observer throws, RunSummary.stepsTaken is the
\* number of agent calls of the run and the records written to the steps
\* file carry the step indices 0..stepsTaken-1.
C23_EveryCallRecorded ==
  QuietObservers =>
    \A id \in RunIds :
      Summarized(id) =>
        /\ RunOf(id).summary.stepsTaken = RunOf(id).agentCalls
        /\ \A i \in 1..Len(RunOf(id).steps) : RunOf(id).steps[i].stepIndex = i - 1
        /\ FilesOf(id).steps.exists =>
             /\ Len(FilesOf(id).steps.content) = RunOf(id).summary.stepsTaken
             /\ \A i \in 1..Len(FilesOf(id).steps.content) :
                  FilesOf(id).steps.content[i].stepIndex = i - 1

EventsOf(id, type) ==
  {i \in DOMAIN wk[id[1]].events :
     wk[id[1]].events[i].type = type /\ wk[id[1]].events[i].run = id[2]}

TimedOut(r) == r.elapsed > scenario.runTimeoutMs

\* C24: the run time-out is looked at only where a step starts (the head of
\* the loop and, after the last allowed step, right behind the loop).  An
\* agent call is only made while the elapsed time is within runTimeoutMs;
\* a run whose time is up where its next step would start ends with status
\* timeout through the normal summary, unless the step before ended the run
\* itself (environment done or invalid-action cap); and the step during
\* which the time runs out is completed: every agent call that settled has
\* its step_complete event.
C24_TimeoutAtStepStart ==
  \A id \in RunIds :
    /\ RunOf(id).pc \in {"agent", "queued"} => ~ TimedOut(RunOf(id))
    /\ Cardinality(EventsOf(id, "step_complete")) =
         IF RunOf(id).pc = "agent" THEN RunOf(id).agentCalls - 1
                                   ELSE RunOf(id).agentCalls
    /\ Summarized(id) =>
         /\ RunOf(id).summary.status = "timeout" =>
              /\ TimedOut(RunOf(id))
              /\ ~ RunOf(id).env.done
              /\ RunOf(id).summary.stepsTaken = RunOf(id).agentCalls
         /\ (QuietObservers /\ TimedOut(RunOf(id)) /\ ~ RunOf(id).env.done
               /\ RunOf(id).summary.status # "fail") =>
              RunOf(id).summary.status = "timeout"

\* the time ran out during the third step; the step was completed and
\* recorded with the environment's feedback, the fourth step was not started
\* and the summary with status timeout was renamed into place
C24_Witness ==
  \E id \in RunIds :
    /\ RunOf(id).pc = "returned"
    /\ RunOf(id).summary.status = "timeout"
    /\ FilesOf(id).summary.exists
    /\ RunOf(id).agentCalls = 3
    /\ RunOf(id).agentCalls < scenario.maxSteps
    /\ Len(RunOf(id).steps) = 3
    /\ RunOf(id).steps[3].envFeedback.result = "incorrect"
    /\ EventsOf(id, "step_start") = {2, 4, 6}

\* C25: an exception thrown inside the loop outside the handled agent-call,
\* parse and environment errors (here: by an observer during the
\* step_complete event) ends that run with status error through the normal
\* summary: the exception does not leave the run, no error event is emitted
\* for it, the worker goes on, and the steps file and the summary are
\* written; only a failing file operation makes such a run throw.
C25_LoopExceptionEndsRunAsError ==
  Throws("step_complete") =>
    \A id \in RunIds :
      /\ RunOf(id).pc = "agent" =>
           \A resp \in ResponseSets[scenario.responses] :
             LET w2 == ProcessResponse(ReleaseRequest(wk[id[1]]), id[2], resp)
                 r2 == w2.runs[id[2]]
             IN  /\ r2.pc = "writeSteps"
                 /\ r2.summary.status = "error"
                 /\ r2.summary.stepsTaken = Len(RunOf(id).steps)
                 /\ r2.steps = RunOf(id).steps
                 /\ w2.pc = "looping"
                 /\ w2.events[Len(w2.events)].type = "step_complete"
      /\ RunOf(id).pc = "returned" =>
           /\ RunOf(id).summary.status = "error"
           /\ FilesOf(id).steps = File(RunOf(id).steps)
           /\ FilesOf(id).summary = File(RunOf(id).summary)
           /\ EventsOf(id, "error") = {}
           /\ EventsOf(id, "run_complete") # {}
      /\ RunOf(id).pc = "threw" => faults > 0
      /\ wk[id[1]].pc # "rejected"

\* an observer threw during the step_complete event of the first step of a
\* run; the run returned with status error and both files, and the next run
\* of the worker was started
C25_Witness ==
  /\ Throws("step_complete")
  /\ \E m \in DOMAIN wk :
       /\ wk[m].runs[1].pc = "returned"
       /\ wk[m].runs[1].agentCalls = 1
       /\ wk[m].runs[1].summary.status = "error"
       /\ wk[m].files[1].steps.exists
       /\ wk[m].files[1].summary.exists
       /\ wk[m].runs[2].pc = "agent"

\* chatCompletionWithRetry threw: a fatal error, or retries exhausted
ApiError == [kind |-> "api_error", latencyMs |-> 2]

\* C26: when no exception escapes the step, a failed agent call is recorded
\* as one StepRecord with the API error, no parsed action, no usage and no
\* environment feedback; the environment state and the observation are
\* unchanged, the invalid-action count is unchanged, and the run goes on
\* with the next step.
C26_ApiErrorStep ==
  QuietObservers =>
    \A id \in RunIds :
      RunOf(id).pc = "agent" =>
        LET r  == RunOf(id)
            r2 == AfterResponse(id, ApiError)
        IN  /\ r2.invalidActions = r.invalidActions
            /\ r2.env = r.env
            /\ r2.observation = r.observation
            /\ r2.steps = Append(r.steps,
                                 [stepIndex    |-> r.stepIndex,
                                  observation  |-> r.observation.stateVersion,
                                  parsedAction |-> "null",
                                  envFeedback  |-> NoFeedback,
                                  usage        |-> NoUsage,
                                  latencyMs    |-> ApiError.latencyMs,
                                  error        |-> "api"])
            /\ r2.totalPromptTokens = r.totalPromptTokens
            /\ NextStepEntered(r, r2)

\* the first agent call of a run failed, the second step found a group, and
\* the third request is out
C26_Witness ==
  \E id \in RunIds :
    /\ RunOf(id).pc = "agent"
    /\ RunOf(id).agentCalls = 3
    /\ RunOf(id).invalidActions = 0
    /\ Len(RunOf(id).steps) = 2
    /\ RunOf(id).steps[1].error = "api"
    /\ RunOf(id).steps[2].envFeedback.result = "correct"

\* ------------------------------------------------------------------------
\* Properties of the agent client
\* ------------------------------------------------------------------------
\* request attempts started so far in the call
Attempts == client.attempt + 1

\* C27: a call of the step loop (maxRetries = 3) makes at most 3 request
\* attempts in total, a back-off sleep lies between consecutive attempts,
\* and the error the call throws is the failure of its last attempt.
C27_AtMostThreeAttempts ==
  /\ Attempts <= 3
  /\ Len(client.sleeps) = IF client.pc = "sleep" THEN Attempts ELSE Attempts - 1
  /\ client.pc = "threw" =>
       /\ Len(client.calls) = Attempts
       /\ client.error = client.calls[Attempts].result

\* rate limit, request time-out (the abort by the step time-out included)
\* or a 5xx answer
RetryableCause(raw) ==
  \/ raw.kind = "abort"
  \/ /\ raw.kind = "response"
     /\ raw.status \in {429, 408} \cup 500..599

Failed(raw) == ~ (raw.kind = "response" /\ raw.status \in 200..299 /\ raw.choices)

\* C28: a failed attempt that is not the last one the call allows is
\* followed by a back-off sleep and a further attempt exactly when its cause
\* is a rate limit (429), a request time-out (408 or an aborted request) or
\* a 5xx answer; a failure of any other cause (another 4xx, a network error
\* without HTTP status, an answer without choices) ends the call at once:
\* the call throws that error, no sleep and no attempt follows it.
C28_RetriedIffRetryable ==
  \A i \in DOMAIN client.calls :
    LET raw == client.calls[i].raw
    IN  IF ~ Failed(raw)
          THEN i = Len(client.calls) /\ client.pc = "returned"
        ELSE IF RetryableCause(raw) /\ i - 1 < client.options.maxRetries
          THEN /\ Len(client.sleeps) >= i
               /\ i = Len(client.calls) => client.pc = "sleep" \/ client.attempt = i
          ELSE /\ i = Len(client.calls)
               /\ client.attempt = i - 1
               /\ client.pc = "threw"
               /\ client.error = client.calls[i].result
               /\ Len(client.sleeps) = i - 1
               /\ (~ RetryableCause(raw) /\ i = 1) => client.sleeps = <<>>

\* a rate limit and an aborted request were each followed by a sleep and a
\* new attempt; the 404 of the third attempt was thrown at once
C28_Witness ==
  /\ client.pc = "threw"
  /\ Len(client.calls) = 3
  /\ client.calls[1].raw = [kind |-> "response", status |-> 429, choices |-> TRUE]
  /\ client.calls[2].raw = [kind |-> "abort"]
  /\ client.calls[3].raw = [kind |-> "response", status |-> 404, choices |-> TRUE]
  /\ client.error.statusCode = 404
  /\ client.sleeps = <<1999, 2000>>

\* ------------------------------------------------------------------------
\* Properties of the event stream
\* ------------------------------------------------------------------------
\* positions of the events of run k in the stream of worker w
RunEvents(w, k) == {i \in DOMAIN w.events : w.events[i].run = k}

Ended(e) == e.type \in {"run_complete", "error"}

\* the events of run k, taken in order: run_start, then step_start(i)
\* directly followed by step_complete(i) for i = 0, 1, ..., then at most one
\* run_complete or error, which is an error exactly when the run threw
RunEventsInOrder(w, k) ==
  LET ps == RunEvents(w, k)
      e(i) == w.events[i]
  IN  ps # {} =>
        LET first == CHOOSE i \in ps : \A j \in ps : i <= j
            last  == CHOOSE i \in ps : \A j \in ps : j <= i
        IN  /\ ps = first..last
            /\ e(first).type = "run_start"
            /\ \A i \in ps \ {first} : e(i).type # "run_start"
            /\ \A i \in ps : Ended(e(i)) => i = last
            /\ \A i \in ps :
                 e(i).type = "step_start" =>
                   /\ e(i).step = Cardinality({j \in ps : j < i /\ e(j).type = "step_start"})
                   /\ i < last => /\ e(i + 1).type = "step_complete"
                                  /\ e(i + 1).step = e(i).step
            /\ \A i \in ps :
                 e(i).type = "step_complete" =>
                   /\ i > first
                   /\ e(i - 1).type = "step_start"
            /\ w.runs[k].pc = "returned" => e(last).type = "run_complete"
            /\ w.runs[k].pc = "threw" => e(last).type = "error"

\* C29: when no observer throws, the events of each model come in this
\* order: per run a run_start, then step_start(i) directly followed by
\* step_complete(i) for i = 0, 1, 2, ..., then one run_complete, or one
\* error event if the run threw; the events of the runs of one model do not
\* interleave; worker_idle comes once, as the last event of the model.
C29_EventOrderPerModel ==
  scenario.observerThrowsOn = {} =>
    \A m \in DOMAIN wk :
      /\ \A k \in DOMAIN wk[m].runs : RunEventsInOrder(wk[m], k)
      /\ \A i \in DOMAIN wk[m].events :
           wk[m].events[i].type = "worker_idle" => i = Len(wk[m].events)
      /\ wk[m].pc = "returned" =>
           /\ wk[m].events # <<>>
           /\ wk[m].events[Len(wk[m].events)].type = "worker_idle"

\* C30: observers have no effect on the runs.  What a run does is then
\* fixed by the agent's answers, the clock and the file system alone: a run
\* ends with status error only when its step budget ran out, a run throws
\* only when one of its file operations failed, and no worker stops before
\* its last run, whatever the observers do.
C30_ObserversDoNotInterfere ==
  \A id \in RunIds :
    /\ (Summarized(id) /\ RunOf(id).summary.status = "error") =>
         /\ RunOf(id).stepIndex >= scenario.maxSteps
         /\ RunOf(id).summary.stepsTaken > 0
    /\ RunOf(id).pc = "threw" => faults > 0
    /\ wk[id[1]].pc # "rejected"

\* ------------------------------------------------------------------------
\* Properties of the files of a run
\* ------------------------------------------------------------------------
\* C31: in every state, and so after a crash at any point, the summary.json
\* of a run is absent or holds the complete final summary of the run; a
\* partly written summary is only ever in summary.json.tmp.
C31_SummaryAbsentOrComplete ==
  \A id \in RunIds :
    \/ FilesOf(id).summary = NoFile
    \/ /\ Summarized(id)
       /\ FilesOf(id).summary = File(RunOf(id).summary)
       /\ RunOf(id).summary.status \in RunStatuses

\* the write of one run's summary.json.tmp failed half way and left a part
\* of the text there, with no summary.json; an earlier run of the same
\* worker has its complete summary.json
C31_Witness ==
  \E m \in DOMAIN wk :
    /\ NumRuns(scenario) = 2
    /\ wk[m].files[1].summary = File(wk[m].runs[1].summary)
    /\ wk[m].files[1].tmp = NoFile
    /\ wk[m].runs[2].pc = "threw"
    /\ wk[m].files[2].tmp = File(PartialSummary)
    /\ wk[m].files[2].summary = NoFile

\* C32: in a crossword run, each part of a request that tells the agent
\* which actions are legal (observation.allowedActions, the rules text, the
\* system prompt, the response schema) offers check_entry if and only if
\* allowChecks is true.
C32_CheckOfferedIffAllowed ==
  \A id \in RunIds :
    (scenario.task = "crossword" /\ RunOf(id).pc = "agent") =>
      LET req == CwRequest(scenario, RunOf(id).observation)
      IN  /\ "check_entry" \in req.allowedActions <=> scenario.allowChecks
          /\ "check_entry" \in req.rules <=> scenario.allowChecks
          /\ "check_entry" \in req.responseSchema <=> scenario.allowChecks
          /\ "check_entry" \in req.systemPrompt <=> scenario.allowChecks

\* ------------------------------------------------------------------------
\* Further properties of the agent client
\* ------------------------------------------------------------------------
RECURSIVE SumMs(_)
SumMs(q) == IF q = <<>> THEN 0 ELSE Head(q) + SumMs(Tail(q))

\* the least time the call has taken so far: its settled attempts and the
\* back-off sleeps that are over
MinCallMs ==
  SumMs([i \in DOMAIN client.calls |-> client.calls[i].ms])
    + SumMs(SubSeq(client.sleeps, 1, client.attempt))

\* C33: the agent call of one step, retries and back-off included, takes at
\* most stepTimeoutMs (so that a run overshoots runTimeoutMs by at most
\* stepTimeoutMs).
C33_CallWithinStepTimeout == MinCallMs <= client.options.timeoutMs

\* ------------------------------------------------------------------------
\* Termination
\* ------------------------------------------------------------------------
AllWorkersIdle ==
  \A m \in DOMAIN wk :
    /\ wk[m].pc = "returned"
    /\ wk[m].events # <<>>
    /\ wk[m].events[Len(wk[m].events)].type = "worker_idle"
    /\ \A k \in DOMAIN wk[m].runs : wk[m].runs[k].pc \in {"returned", "threw"}

\* C34: every run makes at most maxSteps agent calls; and when every
\* awaited operation settles, every run ends, every worker reaches
\* worker_idle and runSuite returns.
C34_SuiteTerminates ==
  /\ [](\A id \in RunIds : RunOf(id).agentCalls <= scenario.maxSteps)
  /\ <>(AllWorkersIdle /\ suite.pc = "returned")

\* ------------------------------------------------------------------------
\* Further properties of the step loop and of the environments
\* ------------------------------------------------------------------------
\* C35: a run that performed all maxSteps steps while the environment did
\* not become terminal, the invalid-action cap was not hit and the run
\* time-out had not elapsed is finalized with status error, the status an
\* unexpected exception gives.
C35_StepBudgetEndsAsError ==
  \A id \in RunIds :
    (Summarized(id) /\ RunOf(id).stepIndex >= scenario.maxSteps
       /\ ~ TimedOut(RunOf(id))) =>
      /\ ~ RunOf(id).env.done
      /\ RunOf(id).agentCalls = scenario.maxSteps
      /\ RunOf(id).summary.stepsTaken = scenario.maxSteps
      /\ RunOf(id).summary.status = "error"

\* a connections run found a group, guessed wrong and went on to its last
\* allowed step without ending the game; its summary says error
C35_Witness ==
  \E id \in RunIds :
    /\ RunOf(id).pc = "returned"
    /\ scenario.observerThrowsOn = {}
    /\ RunOf(id).summary.status = "error"
    /\ RunOf(id).summary.stepsTaken = scenario.maxSteps
    /\ RunOf(id).summary.invalidActions = 0
    /\ RunOf(id).steps[1].envFeedback.result = "correct"
    /\ RunOf(id).steps[2].envFeedback.result = "incorrect"
    /\ ~ RunOf(id).env.done

\* C36: in every reachable CrosswordEnv state the set of revealed cells is
\* empty, with allowReveals true as well: the status is never
\* success_with_reveals, the revealedCount metric is 0, and clear_entry on a
\* clue of the puzzle leaves every cell of that clue empty.
C36_NothingIsEverRevealed ==
  cw # NoState =>
    /\ cw.revealedCells = {}
    /\ cw.status # "success_with_reveals"
    /\ EnvMetrics("crossword", cw).revealedCount = 0
    /\ InProgress(cw) =>
         \A k \in ClueKeys :
           \A c \in EntryCells(k) :
             CwStep(cw, ClearEntry(k)).state.fillGrid[c] = "."

\* with allowReveals true the grid was filled correctly and submitted: the
\* game ended as success_clean
C36_Witness ==
  /\ cw # NoState
  /\ cw.config.allowReveals
  /\ cw.status = "success_clean"
  /\ cwOut.kind = "returned"
  /\ cwOut.feedback.result = "submitted"
  /\ cwOut.feedback.successType = "success_clean"

\* C37: in every reachable CrosswordEnv state every cell marked known-wrong
\* holds a letter, and that letter differs from the solution at the cell;
\* filling or clearing a cell, through a crossing entry too, removes its
\* mark.
C37_MarkedCellsAreWrong ==
  cw # NoState =>
    /\ \A c \in cw.checkedWrongCells :
         /\ c \in NonBlock
         /\ cw.fillGrid[c] \notin {".", "#"}
         /\ cw.fillGrid[c] # CwPuzzle.solution[c]
    /\ InProgress(cw) =>
         \A k \in ClueKeys :
           /\ CwStep(cw, ClearEntry(k)).state.checkedWrongCells
                = cw.checkedWrongCells \ EntryCells(k)
           /\ \A a \in Answers :
                LET r == CwStep(cw, FillEntry(k, a))
                IN  r.feedback.result = "filled" =>
                      r.state.checkedWrongCells = cw.checkedWrongCells \ EntryCells(k)

\* 1-across was filled wrong in both cells and checked; filling 1-down then
\* took the mark off the cell they share and left the other mark
C37_Witness ==
  /\ cw # NoState
  /\ cwOut.kind = "returned"
  /\ cwOut.feedback.result = "filled"
  /\ cw.checksPerformed = 1
  /\ cw.checkedWrongCells = {1}
  /\ cw.fillGrid[0] = "A"
  /\ cw.fillGrid[1] = "A"
  /\ cw.fillGrid[3] = "B"

\* ------------------------------------------------------------------------
\* Further properties of the files and of the suite
\* ------------------------------------------------------------------------
RECURSIVE SumLatency(_)
SumLatency(steps) ==
  IF steps = <<>> THEN 0 ELSE Head(steps).latencyMs + SumLatency(Tail(steps))

RECURSIVE SumPrompt(_)
SumPrompt(steps) ==
  IF steps = <<>> THEN 0
  ELSE (IF Head(steps).usage.present THEN Head(steps).usage.promptTokens ELSE 0)
         + SumPrompt(Tail(steps))

RECURSIVE SumCompletion(_)
SumCompletion(steps) ==
  IF steps = <<>> THEN 0
  ELSE (IF Head(steps).usage.present THEN Head(steps).usage.completionTokens ELSE 0)
         + SumCompletion(Tail(steps))

\* C38: for every finished run (no observer throwing), latencyMsTotal and
\* the prompt and completion token totals of the summary are the sums of
\* those fields over the StepRecords in the run's steps file, and
\* usage.totalTokens is promptTokens + completionTokens.
C38_TotalsAreSumsOverSteps ==
  QuietObservers =>
    \A id \in RunIds :
      (FilesOf(id).summary.exists /\ FilesOf(id).steps.exists) =>
        LET summary == FilesOf(id).summary.content
            steps   == FilesOf(id).steps.content
        IN  /\ summary.latencyMsTotal = SumLatency(steps)
            /\ summary.usage.promptTokens = SumPrompt(steps)
            /\ summary.usage.completionTokens = SumCompletion(steps)
            /\ summary.usage.totalTokens =
                 summary.usage.promptTokens + summary.usage.completionTokens

\* C39: the summary.json of a run is visible only when the run's steps file
\* holds all its StepRecords, and the run_complete event of a run is in the
\* stream only when its summary.json is visible: whoever sees a summary or
\* a run_complete can read the full trace of the run.
C39_TraceBeforeSummaryBeforeEvent ==
  \A id \in RunIds :
    /\ FilesOf(id).summary.exists =>
         /\ FilesOf(id).steps = File(RunOf(id).steps)
         /\ Len(FilesOf(id).steps.content) = FilesOf(id).summary.content.stepsTaken
    /\ EventsOf(id, "run_complete") # {} =>
         /\ FilesOf(id).summary = File(RunOf(id).summary)
         /\ FilesOf(id).steps = File(RunOf(id).steps)

\* the run_complete of a run of three steps is out, with its steps file and
\* its summary on disk
C39_Witness ==
  \E id \in RunIds :
    /\ EventsOf(id, "run_complete") # {}
    /\ RunOf(id).pc = "returned"
    /\ Len(FilesOf(id).steps.content) = 3
    /\ FilesOf(id).summary.content.stepsTaken = 3
    /\ FilesOf(id).tmp = NoFile

\* the agent requests that were handed to the client and have not settled
InFlight == {id \in RunIds : RunOf(id).pc = "agent"}

====
